---------------------------- MODULE Spec2Model ----------------------------
(***************************************************************************)
(* Reconciliation handlers of terraform-provider-kinde.                    *)
(*                                                                         *)
(* One behaviour follows one managed resource of one kind.  A step is one  *)
(* handler invocation (Create, Read, Update, Delete, ImportState) run to   *)
(* its end, or one change made on the remote by somebody else (Drift).     *)
(*                                                                         *)
(*   kind    the resource kind the behaviour manages                       *)
(*   remote  the remote service's data for that kind                       *)
(*   rec     the Terraform state record of the resource (exists = FALSE    *)
(*           when there is none)                                           *)
(*   cfg     the configuration the last step's handler was given (Create,  *)
(*           Update, the Delete of a replacement); a Read that follows a   *)
(*           successful Create, Update or Read keeps it; NoCfg otherwise   *)
(*   log     the remote calls issued by the last invocation, in order;     *)
(*           a failed call is the last entry and has ok = FALSE            *)
(*   err     the title of the error diagnostic of the last invocation,     *)
(*           "" when it raised none                                        *)
(*   op      the last step                                                 *)
(*   made    the ids returned by the provider's own remote Create calls    *)
(*   aborted the configuration of an Update that ended with an error, kept *)
(*           through the successful Reads that follow it and through the   *)
(*           successful Update that then applies it again; NoCfg otherwise *)
(*                                                                         *)
(* A handler's response state starts as the framework sets it: null in     *)
(* Create and ImportState, the prior state in Read and Update.  A handler  *)
(* that returns before State.Set therefore leaves `rec` as it was.         *)
(***************************************************************************)
EXTENDS Integers, Sequences, FiniteSets, TLC

VARIABLES kind, remote, rec, cfg, log, err, op, made, aborted

vars == <<kind, remote, rec, cfg, log, err, op, made, aborted>>

---------------------------------------------------------------------------
(* Bounds and value universes *)

\* member ids (permission ids, role ids) are 1..MaxMember, ordered as ids
MaxMember == 2

\* the ids the remote hands out to new entities of kind k, in this order
Ids(k) == CASE k \in {"permission", "application", "api"} -> {1, 2} [] OTHER -> {1}

Members == 1..MaxMember

Names == {"n1", "n2"}

Keys == {"k1"}

Descriptions == {"d1"}

Orgs == {"o1", "o2"}

AppTypes == {"reg", "spa"}

Audiences == {"a1", "a2"}

AppIds == {"app1", "app2"}

ConnIds == {"conn1", "conn2"}

\* one strategy convertOptionsToMap accepts and one it rejects
Strategies == {"oauth2:google", "saml:custom"}

\* options objects with both credentials set
Secrets == {[client_id |-> <<"ci1">>, client_secret |-> <<"cs1">>],
            [client_id |-> <<"ci2">>, client_secret |-> <<"cs2">>]}

\* the options object of a configuration that writes options = {}
EmptyOptions == [client_id |-> <<>>, client_secret |-> <<>>]

\* a required string attribute that has not been set (a null string)
Unset == "(null)"

Users == {"u1"}

\* a null attribute value (types.XxxNull()); a known value v is <<v>>
Null == <<>>

Some(v) == <<v>>

IsNull(x) == x = Null

\* (types.String).ValueString(), ElementsAs of a null collection: the zero value
ValueOr(x, zero) == IF x = Null THEN zero ELSE x[1]

NoRec == [exists |-> FALSE]

NoCfg == [none |-> TRUE]

---------------------------------------------------------------------------
(* Sequences and sets *)

Range(s) == {s[i] : i \in 1..Len(s)}

Min(S) == CHOOSE x \in S : \A y \in S : x <= y

RECURSIVE SortSet(_)
\* sort.Strings over the members of S
SortSet(S) == IF S = {} THEN <<>> ELSE <<Min(S)>> \o SortSet(S \ {Min(S)})

\* all duplicate-free sequences over S that hold every member of S
Orders(S) == {s \in [1..Cardinality(S) -> S] : Range(s) = S}

\* all duplicate-free sequences over subsets of S
Lists(S) == UNION {Orders(T) : T \in SUBSET S}

SelectSeqNotIn(s, S) == SelectSeq(s, LAMBDA x : x \notin S)

Drop(f, k) == [i \in DOMAIN f \ {k} |-> f[i]]

---------------------------------------------------------------------------
(* Remote calls *)

Call(c, id, a) == [c |-> c, id |-> id, a |-> a, ok |-> TRUE]

Issued(l, c) == {i \in 1..Len(l) : l[i].c = c}


---------------------------------------------------------------------------
(* The remote service, as the handlers' calls see it.                      *)
(* role remote: [next |-> the id the next Create returns,                  *)
(*               ents |-> [id -> [name, key, description, permissions]]]   *)

\* organization_user remote: ents |-> [<<organization code, user id>> -> role ids],
\*   perms |-> the pairs <<membership, permission id>> granted to members,
\*   which none of the calls above changes but RemoveUser
OrgUserCallNames == {"organizations.AddUsers", "organizations.AddUserRole",
                     "organizations.GetUserRoles", "organizations.RemoveUserRole",
                     "organizations.RemoveUser"}

\* user remote: ents |-> [id -> [first_name, is_suspended, identities (a list)]]
UserCallNames == {"users.Create", "users.Get", "users.GetIdentities", "users.Update",
                  "users.AddIdentity", "users.Delete"}

\* application remote: ents |-> [id -> [name, type, login_uri ("" when unset),
\*                                    logout_uris, client_id, client_secret]]
AppCallNames == {"applications.Create", "applications.Get", "applications.Update",
                 "applications.Delete"}

\* connection remote: ents |-> [id -> [name, strategy, options]]; the remote
\* never returns the options
ConnCallNames == {"connections.Create", "connections.Get", "connections.Update",
                  "connections.Delete"}

\* permission remote: ents |-> [id -> [name, key]], one permission per key
\* the permissions of remote r whose name and key are those of m, by id
PermissionMatches(r, m) ==
    {id \in DOMAIN r.ents : r.ents[id].name = m.name /\ r.ents[id].key = m.key}

RoleCallNames == {"roles.Create", "roles.Get", "roles.Update", "roles.UpdatePermissions",
                  "roles.RemovePermission", "roles.Delete"}

\* what a successful call does to the remote
RemoteEffect(c, r) ==
    CASE c.c = "roles.Create" ->
           [r EXCEPT !.next = @ + 1,
                     !.ents = (c.id :> [name |-> c.a.name, key |-> c.a.key,
                                        description |-> c.a.description,
                                        permissions |-> {}]) @@ @]
      [] c.c = "roles.Update" ->
           [r EXCEPT !.ents[c.id].name = c.a.name,
                     !.ents[c.id].description = c.a.description]
      [] c.c = "roles.UpdatePermissions" ->
           [r EXCEPT !.ents[c.id].permissions = @ \cup Range(c.a)]
      [] c.c = "roles.RemovePermission" ->
           [r EXCEPT !.ents[c.id].permissions = @ \ {c.a}]
      [] c.c = "roles.Delete" -> [r EXCEPT !.ents = Drop(@, c.id)]
      [] c.c = "users.Create" ->
           [r EXCEPT !.next = @ + 1,
                     !.ents = (c.id :> [first_name |-> c.a.first_name, is_suspended |-> FALSE,
                                        identities |-> c.a.identities]) @@ @]
      [] c.c = "users.Update" ->
           [r EXCEPT !.ents[c.id].first_name = ValueOr(c.a.first_name, @),
                     !.ents[c.id].is_suspended = ValueOr(c.a.is_suspended, @)]
      [] c.c = "users.AddIdentity" ->
           \* the remote keeps one entry per identity
           [r EXCEPT !.ents[c.id].identities = IF c.a \in Range(@) THEN @ ELSE Append(@, c.a)]
      [] c.c = "users.Delete" -> [r EXCEPT !.ents = Drop(@, c.id)]
      [] c.c = "applications.Create" ->
           [r EXCEPT !.next = @ + 1,
                     !.ents = (c.id :> [name |-> c.a.name, type |-> c.a.type,
                                        login_uri |-> "", logout_uris |-> <<>>,
                                        client_id |-> <<"client", c.id>>,
                                        client_secret |-> <<"secret", c.id>>]) @@ @]
      [] c.c = "applications.Update" ->
           \* an empty name in the parameters leaves the name alone
           [r EXCEPT !.ents[c.id].name = IF c.a.name = "" THEN @ ELSE c.a.name,
                     !.ents[c.id].login_uri = c.a.login_uri,
                     !.ents[c.id].logout_uris = c.a.logout_uris]
      [] c.c = "applications.Delete" -> [r EXCEPT !.ents = Drop(@, c.id)]
      [] c.c = "connections.Create" ->
           [r EXCEPT !.next = @ + 1,
                     !.ents = (c.id :> [name |-> c.a.name, strategy |-> c.a.strategy,
                                        options |-> c.a.options]) @@ @]
      [] c.c = "connections.Update" ->
           \* nil options in the parameters leave the stored options alone
           [r EXCEPT !.ents[c.id].name = c.a.name,
                     !.ents[c.id].options = IF IsNull(c.a.options) THEN @ ELSE c.a.options]
      [] c.c = "connections.Delete" -> [r EXCEPT !.ents = Drop(@, c.id)]
      [] c.c = "permissions.Create" ->
           [r EXCEPT !.next = @ + 1,
                     !.ents = (c.id :> [name |-> c.a.name, key |-> c.a.key]) @@ @]
      [] c.c = "permissions.Update" ->
           [r EXCEPT !.ents[c.id] = [name |-> c.a.name, key |-> c.a.key]]
      [] c.c = "permissions.Delete" -> [r EXCEPT !.ents = Drop(@, c.id)]
      [] c.c = "apis.Create" ->
           [r EXCEPT !.next = @ + 1, !.ents = (c.id :> c.a) @@ @]
      [] c.c = "apis.Delete" -> [r EXCEPT !.ents = Drop(@, c.id)]
      [] c.c = "applications.EnableConnection" -> [r EXCEPT !.ents = (c.id :> TRUE) @@ @]
      [] c.c = "applications.DisableConnection" -> [r EXCEPT !.ents = Drop(@, c.id)]
      [] c.c = "organizations.AddUsers" ->
           [r EXCEPT !.ents = (c.id :> (IF c.id \in DOMAIN @ THEN @[c.id] ELSE {})) @@ @]
      [] c.c = "organizations.AddUserRole" -> [r EXCEPT !.ents[c.id] = @ \cup {c.a}]
      [] c.c = "organizations.RemoveUserRole" -> [r EXCEPT !.ents[c.id] = @ \ {c.a}]
      [] c.c = "organizations.RemoveUser" ->
           [r EXCEPT !.ents = Drop(@, c.id), !.perms = {g \in @ : g[1] # c.id}]
      [] c.c = "organizations.Create" ->
           \* a new organization has the name and the handle of the parameters
           \* and neither an external id nor colours
           [r EXCEPT !.next = @ + 1,
                     !.ents = (c.id :> [name |-> c.a.name,
                                        handle |-> IF c.a.handle = "" THEN Null
                                                   ELSE Some(c.a.handle),
                                        external_id |-> Null, background_color |-> Null,
                                        button_color |-> Null, button_text_color |-> Null,
                                        link_color |-> Null]) @@ @]
      [] c.c = "organizations.Update" ->
           \* an empty string in the parameters leaves the field alone
           [r EXCEPT !.ents[c.id] =
               [a \in DOMAIN @ |-> IF c.a[a] = "" THEN @[a]
                                   ELSE IF a = "name" THEN c.a[a] ELSE Some(c.a[a])]]
      [] c.c = "organizations.Delete" -> [r EXCEPT !.ents = Drop(@, c.id)]
      [] OTHER -> r

\* a call the remote answers with an error whatever the transport does:
\* the entity it names does not exist
NotFound(c, r) ==
    CASE c.c \in RoleCallNames \ {"roles.Create"} -> c.id \notin DOMAIN r.ents
      [] c.c \in OrgUserCallNames \ {"organizations.AddUsers"} -> c.id \notin DOMAIN r.ents
      [] c.c \in UserCallNames \ {"users.Create"} -> c.id \notin DOMAIN r.ents
      [] c.c \in AppCallNames \ {"applications.Create"} -> c.id \notin DOMAIN r.ents
      [] c.c \in ConnCallNames \ {"connections.Create"} -> c.id \notin DOMAIN r.ents
      [] c.c \in {"permissions.Update", "permissions.Delete"} -> c.id \notin DOMAIN r.ents
      [] c.c = "permissions.Create" -> \E id \in DOMAIN r.ents : r.ents[id].key = c.a.key
      [] c.c = "permissions.Search" -> PermissionMatches(r, c.a) = {}
      [] c.c \in {"apis.Get", "apis.Delete"} -> c.id \notin DOMAIN r.ents
      [] c.c \in {"organizations.Get", "organizations.Update", "organizations.Delete"} ->
           c.id \notin DOMAIN r.ents
      [] c.c = "organizations.Create" -> c.id \in DOMAIN r.ents
      [] OTHER -> FALSE

RECURSIVE Run(_, _, _, _)
\* The calls of one invocation, issued in order against remote r.  Call
\* number f fails in transit (f = 0: none does); a failed call changes
\* nothing, ends the invocation and is not issued again.
Run(calls, r, f, i) ==
    IF calls = <<>> THEN [remote |-> r, log |-> <<>>, failed |-> FALSE]
    ELSE LET c == Head(calls) IN
         IF f = i \/ NotFound(c, r)
         THEN [remote |-> r, log |-> <<[c EXCEPT !.ok = FALSE]>>, failed |-> TRUE]
         ELSE LET rest == Run(Tail(calls), RemoteEffect(c, r), f, i + 1)
              IN  [remote |-> rest.remote, log |-> <<c>> \o rest.log,
                   failed |-> rest.failed]

---------------------------------------------------------------------------
(* kinde_role *)

RoleConfigs ==
    [name : Names, key : Keys, description : Descriptions,
     permissions : {Null} \cup {Some(S) : S \in SUBSET Members}]

expandRoleCreateParams(plan) ==
    [name |-> plan.name, key |-> plan.key, description |-> plan.description]

expandRoleUpdateParams(plan) ==
    [name |-> plan.name, description |-> plan.description]

\* a flattening that keeps an empty permission set as an empty set
flattenRoleResourceKeepingEmpty(id, role, permissions) ==
    [exists |-> TRUE, id |-> id, name |-> role.name, key |-> role.key,
     description |-> role.description, permissions |-> Some(permissions)]

\* permissions comes out null when the slice is empty
flattenRoleResource(id, role, permissions) ==
    [exists |-> TRUE, id |-> id, name |-> role.name, key |-> role.key,
     description |-> role.description,
     permissions |-> IF permissions = {} THEN Null ELSE Some(permissions)]

\* (types.Set).ElementsAs: the elements in the order Terraform hands a set
\* over, which is ascending for strings
SetElementsAs(x) == SortSet(ValueOr(x, {}))

\* a Create that reads the role back once, before it sets the permissions
RoleCreateCallsGetFirst(plan, id) ==
    <<Call("roles.Create", id, expandRoleCreateParams(plan)), Call("roles.Get", id, <<>>)>>
    \o (IF ~IsNull(plan.permissions)
        THEN <<Call("roles.UpdatePermissions", id, SortSet(Range(SetElementsAs(plan.permissions))))>>
        ELSE <<>>)

RoleCreateCalls(plan, id) ==
    <<Call("roles.Create", id, expandRoleCreateParams(plan)), Call("roles.Get", id, <<>>)>>
    \o (IF ~IsNull(plan.permissions)
        THEN <<Call("roles.UpdatePermissions", id, SortSet(Range(SetElementsAs(plan.permissions)))),
               Call("roles.Get", id, <<>>)>>
        ELSE <<>>)

RoleCreateErr ==
    <<"Error Creating Role", "Error Reading Created Role",
      "Error Setting Role Permissions", "Error Reading Updated Role">>

RoleCreate(plan, r, f) ==
    LET id  == r.next
        run == Run(RoleCreateCalls(plan, id), r, f, 1)
    IN  [remote |-> run.remote, log |-> run.log,
         err |-> IF run.failed THEN RoleCreateErr[Len(run.log)] ELSE "",
         rec |-> IF run.failed THEN NoRec
                 ELSE flattenRoleResource(id, run.remote.ents[id],
                                          run.remote.ents[id].permissions)]

\* a Read that refreshes the role's fields and keeps the state's permissions
RoleReadKeepingPermissions(state, r, f) ==
    LET run == Run(<<Call("roles.Get", state.id, <<>>)>>, r, f, 1)
    IN  [remote |-> run.remote, log |-> run.log,
         err |-> IF run.failed THEN "Error Reading Role" ELSE "",
         rec |-> IF run.failed THEN state
                 ELSE [flattenRoleResource(state.id, r.ents[state.id], {})
                          EXCEPT !.permissions = state.permissions]]

RoleRead(state, r, f) ==
    LET run == Run(<<Call("roles.Get", state.id, <<>>)>>, r, f, 1)
    IN  [remote |-> run.remote, log |-> run.log,
         err |-> IF run.failed THEN "Error Reading Role" ELSE "",
         rec |-> IF run.failed THEN state
                 ELSE flattenRoleResource(state.id, r.ents[state.id],
                                          r.ents[state.id].permissions)]

\* a removal loop that leaves the permissions alone when the plan's
\* permissions are null
RoleToRemoveDeclared(plan, state) ==
    IF IsNull(plan.permissions) THEN <<>>
    ELSE SelectSeqNotIn(SetElementsAs(state.permissions), Range(SetElementsAs(plan.permissions)))

\* the removal loop: state permissions, in state order, that the plan lacks
RoleToRemove(plan, state) ==
    SelectSeqNotIn(SetElementsAs(state.permissions), Range(SetElementsAs(plan.permissions)))

\* every planned permission, sorted: what an Update that does not subtract
\* the state's permissions would hand to UpdatePermissions
RoleToAddAll(plan, state) ==
    SortSet(Range(SetElementsAs(plan.permissions)))

\* permsToAdd, sorted
RoleToAdd(plan, state) ==
    SortSet(Range(SelectSeqNotIn(SetElementsAs(plan.permissions),
                                 Range(SetElementsAs(state.permissions)))))

RoleUpdateCalls(plan, state) ==
    LET id == plan.id
        rm == RoleToRemove(plan, state)
        ad == RoleToAdd(plan, state)
    IN  <<Call("roles.Update", id, expandRoleUpdateParams(plan))>>
        \o [i \in 1..Len(rm) |-> Call("roles.RemovePermission", id, rm[i])]
        \o (IF Len(ad) > 0 THEN <<Call("roles.UpdatePermissions", id, ad)>> ELSE <<>>)
        \o <<Call("roles.Get", id, <<>>)>>

RoleUpdateErr(c) ==
    CASE c = "roles.Update" -> "Error Updating Role"
      [] c = "roles.RemovePermission" -> "Error Removing Permission"
      [] c = "roles.UpdatePermissions" -> "Error Adding Permissions"
      [] c = "roles.Get" -> "Error Reading Updated Role"

RoleUpdate(plan, state, r, f) ==
    LET run == Run(RoleUpdateCalls(plan, state), r, f, 1)
    IN  [remote |-> run.remote, log |-> run.log,
         err |-> IF run.failed THEN RoleUpdateErr(run.log[Len(run.log)].c) ELSE "",
         rec |-> IF run.failed THEN state
                 ELSE flattenRoleResource(plan.id, run.remote.ents[plan.id],
                                          run.remote.ents[plan.id].permissions)]

\* a Delete that drops the record whether or not the call succeeded
RoleDeleteForgetting(state, r, f) ==
    LET run == Run(<<Call("roles.Delete", state.id, <<>>)>>, r, f, 1)
    IN  [remote |-> run.remote, log |-> run.log,
         err |-> IF run.failed THEN "Error Deleting Role" ELSE "",
         rec |-> NoRec]

RoleDelete(state, r, f) ==
    LET run == Run(<<Call("roles.Delete", state.id, <<>>)>>, r, f, 1)
    IN  [remote |-> run.remote, log |-> run.log,
         err |-> IF run.failed THEN "Error Deleting Role" ELSE "",
         rec |-> IF run.failed THEN state ELSE NoRec]

RoleImportState(id, r, f) ==
    LET run == Run(<<Call("roles.Get", id, <<>>)>>, r, f, 1)
    IN  [remote |-> run.remote, log |-> run.log,
         err |-> IF run.failed THEN "Error Reading Kinde Role" ELSE "",
         rec |-> IF run.failed THEN NoRec
                 ELSE flattenRoleResource(id, r.ents[id], Range(SortSet(r.ents[id].permissions)))]

\* the plan of a role: the configuration, and the id of the prior state
RolePlan(c, state) ==
    [id |-> IF state.exists THEN state.id ELSE 0, name |-> c.name, key |-> c.key,
     description |-> c.description, permissions |-> c.permissions]

---------------------------------------------------------------------------
(* kinde_organization_user *)

\* the permission ids a configuration can declare for a member
UserPermissionIds == {1}

\* configurations that declare roles, and configurations that declare
\* permissions and leave roles out
OrgUserConfigs ==
    [organization_code : Orgs, user_id : Users,
     roles : {Null} \cup {Some(l) : l \in Lists(Members)}, permissions : {Null}]
    \cup [organization_code : Orgs, user_id : Users,
          roles : {Null}, permissions : {Some(<<p>>) : p \in UserPermissionIds}]

\* a key that leaves the organization out: every membership of a user is
\* addressed as the one in the first organization
OrgUserKeyByUser(m) == <<"o1", m.user_id>>

OrgUserKey(m) == <<m.organization_code, m.user_id>>

\* the model written to the state: the plan or the prior state with its id
OrgUserState(m) ==
    [exists |-> TRUE, id |-> OrgUserKey(m), organization_code |-> m.organization_code,
     user_id |-> m.user_id, roles |-> m.roles, permissions |-> m.permissions]

\* what GetUserRoles answers for membership k of remote r
GetUserRoles(r, k) == IF k \in DOMAIN r.ents THEN SortSet(r.ents[k]) ELSE <<>>

OrgUserCreateCalls(plan) ==
    LET roles == ValueOr(plan.roles, <<>>)
    IN  <<Call("organizations.AddUsers", OrgUserKey(plan), <<>>)>>
        \o [i \in 1..Len(roles) |-> Call("organizations.AddUserRole", OrgUserKey(plan), roles[i])]

\* a Create that, when a role cannot be added, takes the user out of the
\* organization again
OrgUserCreateUndoing(plan, r, f) ==
    LET run  == Run(OrgUserCreateCalls(plan), r, f, 1)
        undo == Call("organizations.RemoveUser", OrgUserKey(plan), <<>>)
    IN  [remote |-> IF run.failed /\ Len(run.log) > 1
                    THEN RemoteEffect(undo, run.remote) ELSE run.remote,
         log |-> IF run.failed /\ Len(run.log) > 1 THEN run.log \o <<undo>> ELSE run.log,
         err |-> IF ~run.failed THEN ""
                 ELSE IF Len(run.log) = 1 THEN "Error Creating Organization User"
                 ELSE "Error Adding Role",
         rec |-> IF run.failed THEN NoRec ELSE OrgUserState(plan)]

OrgUserCreate(plan, r, f) ==
    LET run == Run(OrgUserCreateCalls(plan), r, f, 1)
    IN  [remote |-> run.remote, log |-> run.log,
         err |-> IF ~run.failed THEN ""
                 ELSE IF Len(run.log) = 1 THEN "Error Creating Organization User"
                 ELSE "Error Adding Role",
         rec |-> IF run.failed THEN NoRec ELSE OrgUserState(plan)]

OrgUserRead(state, r, f) ==
    LET run == Run(<<Call("organizations.GetUserRoles", OrgUserKey(state), <<>>)>>, r, f, 1)
    IN  [remote |-> run.remote, log |-> run.log,
         err |-> IF run.failed THEN "Error Reading Organization User" ELSE "",
         rec |-> IF run.failed THEN state
                 ELSE IF IsNull(state.roles)
                 THEN [state EXCEPT !.roles = Some(GetUserRoles(r, OrgUserKey(state)))]
                 ELSE state]

\* current roles the plan does not list, in the order the remote gave them
OrgUserToRemove(current, desired) == SelectSeqNotIn(current, Range(desired))

\* planned roles the remote does not hold, in plan order
OrgUserToAdd(current, desired) == SelectSeqNotIn(desired, Range(current))

\* the calls of an Update that assigns the new roles before it revokes the old
OrgUserUpdateCallsAddFirst(plan, state, r) ==
    LET k       == OrgUserKey(state)
        current == GetUserRoles(r, k)
        desired == ValueOr(plan.roles, <<>>)
        rm      == OrgUserToRemove(current, desired)
        ad      == OrgUserToAdd(current, desired)
    IN  IF plan.roles = state.roles THEN <<>>
        ELSE <<Call("organizations.GetUserRoles", k, <<>>)>>
             \o [i \in 1..Len(ad) |-> Call("organizations.AddUserRole", k, ad[i])]
             \o [i \in 1..Len(rm) |-> Call("organizations.RemoveUserRole", k, rm[i])]

\* the calls of an Update that takes the roles of the state for the current
\* roles instead of asking the remote
OrgUserUpdateCallsFromState(plan, state, r) ==
    LET k       == OrgUserKey(state)
        current == ValueOr(state.roles, <<>>)
        desired == ValueOr(plan.roles, <<>>)
        rm      == OrgUserToRemove(current, desired)
        ad      == OrgUserToAdd(current, desired)
    IN  IF plan.roles = state.roles THEN <<>>
        ELSE <<Call("organizations.GetUserRoles", k, <<>>)>>
             \o [i \in 1..Len(rm) |-> Call("organizations.RemoveUserRole", k, rm[i])]
             \o [i \in 1..Len(ad) |-> Call("organizations.AddUserRole", k, ad[i])]

OrgUserUpdateCalls(plan, state, r) ==
    LET k       == OrgUserKey(state)
        current == GetUserRoles(r, k)
        desired == ValueOr(plan.roles, <<>>)
        rm      == OrgUserToRemove(current, desired)
        ad      == OrgUserToAdd(current, desired)
    IN  IF plan.roles = state.roles THEN <<>>
        ELSE <<Call("organizations.GetUserRoles", k, <<>>)>>
             \o [i \in 1..Len(rm) |-> Call("organizations.RemoveUserRole", k, rm[i])]
             \o [i \in 1..Len(ad) |-> Call("organizations.AddUserRole", k, ad[i])]

OrgUserUpdateErr(c) ==
    CASE c = "organizations.GetUserRoles" -> "Error Reading Current Roles"
      [] c = "organizations.RemoveUserRole" -> "Error Removing Role"
      [] c = "organizations.AddUserRole" -> "Error Adding Role"

OrgUserUpdate(plan, state, r, f) ==
    LET run == Run(OrgUserUpdateCalls(plan, state, r), r, f, 1)
    IN  [remote |-> run.remote, log |-> run.log,
         err |-> IF run.failed THEN OrgUserUpdateErr(run.log[Len(run.log)].c) ELSE "",
         rec |-> IF run.failed THEN state ELSE OrgUserState(plan)]

OrgUserDelete(state, r, f) ==
    LET run == Run(<<Call("organizations.RemoveUser", OrgUserKey(state), <<>>)>>, r, f, 1)
    IN  [remote |-> run.remote, log |-> run.log,
         err |-> IF run.failed THEN "Error Removing User from Organization" ELSE "",
         rec |-> IF run.failed THEN state ELSE NoRec]

\* sets organization_code, user_id and id from the import id; calls nothing
OrgUserImportState(k, r) ==
    [remote |-> r, log |-> <<>>, err |-> "",
     rec |-> [exists |-> TRUE, id |-> k, organization_code |-> k[1], user_id |-> k[2],
              roles |-> Null, permissions |-> Null]]

---------------------------------------------------------------------------
(* kinde_user: id, first_name, is_suspended and identities.  last_name is    *)
(* handled like first_name; organization_code, created_on and updated_on     *)
(* take no part in any call after Create.                                    *)

Email == [type |-> "email", value |-> "e1"]

Username == [type |-> "username", value |-> "un1"]

Google == [type |-> "oauth2:google", value |-> "g1"]

\* strings.HasPrefix(identity.Type, "oauth2:")
IsOauth2(i) == i.type \in {"oauth2:google"}

Oauth2Of(l) == SelectSeq(l, IsOauth2)

HasEmail(l) == \E i \in 1..Len(l) : l[i].type = "email"

UserConfigs ==
    [first_name : {Null, Some("n1")}, is_suspended : {Null, Some(TRUE)},
     identities : {<<Email>>, <<Email, Username>>, <<Username>>}]

\* identitiesModifier.PlanModifyList: the oauth2 identities of the state are
\* appended to the configured ones
identitiesModifier(config, state) ==
    IF ~state.exists \/ Oauth2Of(state.identities) = <<>> THEN config
    ELSE config \o Oauth2Of(state.identities)

UserPlan(c, state) ==
    [id |-> IF state.exists THEN state.id ELSE 0, first_name |-> c.first_name,
     is_suspended |-> c.is_suspended,
     identities |-> identitiesModifier(c.identities, state)]

\* a state that reports the remote's suspension whether or not it is managed
UserStateReporting(id, m, u, l) ==
    [exists |-> TRUE, id |-> id,
     first_name |-> IF IsNull(m.first_name) THEN Null ELSE Some(u.first_name),
     is_suspended |-> Some(u.is_suspended),
     identities |-> l]

\* the state written from model m (plan or prior state), remote user u and
\* identity list l: a null first_name or is_suspended stays null
UserState(id, m, u, l) ==
    [exists |-> TRUE, id |-> id,
     first_name |-> IF IsNull(m.first_name) THEN Null ELSE Some(u.first_name),
     is_suspended |-> IF IsNull(m.is_suspended) THEN Null ELSE Some(u.is_suspended),
     identities |-> l]

\* a Create that sends its calls whatever identities are declared
UserCreateCallsUnchecked(plan, id) ==
    <<Call("users.Create", id, [first_name |-> ValueOr(plan.first_name, ""),
                                identities |-> plan.identities]),
      Call("users.Get", id, <<>>)>>

UserCreateCalls(plan, id) ==
    IF ~HasEmail(plan.identities) THEN <<>>
    ELSE <<Call("users.Create", id, [first_name |-> ValueOr(plan.first_name, ""),
                                     identities |-> plan.identities])>>
         \o (IF ~IsNull(plan.is_suspended)
             THEN <<Call("users.Update", id, [first_name |-> Null,
                                              is_suspended |-> plan.is_suspended])>>
             ELSE <<>>)
         \o <<Call("users.Get", id, <<>>)>>

UserCreate(plan, r, f) ==
    LET id  == r.next
        run == Run(UserCreateCalls(plan, id), r, f, 1)
    IN  [remote |-> run.remote, log |-> run.log,
         err |-> IF ~HasEmail(plan.identities) THEN "Missing Email Identity"
                 ELSE IF ~run.failed THEN ""
                 ELSE CASE run.log[Len(run.log)].c = "users.Create" -> "Error Creating User"
                        [] run.log[Len(run.log)].c = "users.Update" -> "Error Updating User"
                        [] OTHER -> "Error Reading Created User",
         rec |-> IF run.failed \/ ~HasEmail(plan.identities) THEN NoRec
                 ELSE UserState(id, plan, run.remote.ents[id], plan.identities)]

UserRead(state, r, f) ==
    LET run == Run(<<Call("users.Get", state.id, <<>>),
                     Call("users.GetIdentities", state.id, <<>>)>>, r, f, 1)
    IN  [remote |-> run.remote, log |-> run.log,
         err |-> IF ~run.failed THEN ""
                 ELSE IF Len(run.log) = 1 THEN "Error Reading User"
                 ELSE "Error Reading User Identities",
         rec |-> IF run.failed THEN state
                 ELSE UserState(state.id, state, r.ents[state.id], r.ents[state.id].identities)]

\* mergedIdentities: the planned identities and the remote's oauth2 ones
UserMerged(plan, r) ==
    plan.identities
    \o (IF plan.id \in DOMAIN r.ents THEN Oauth2Of(r.ents[plan.id].identities) ELSE <<>>)

\* merged identities that are not oauth2 and that the state does not list
UserToAdd(plan, state, r) ==
    SelectSeq(UserMerged(plan, r), LAMBDA i : ~IsOauth2(i) /\ i \notin Range(state.identities))

UserUpdateCalls(plan, state, r) ==
    LET ad == UserToAdd(plan, state, r)
    IN  <<Call("users.Update", plan.id, [first_name |-> plan.first_name,
                                        is_suspended |-> plan.is_suspended]),
          Call("users.GetIdentities", plan.id, <<>>)>>
        \o (IF ~HasEmail(UserMerged(plan, r)) THEN <<>>
            ELSE [i \in 1..Len(ad) |-> Call("users.AddIdentity", plan.id, ad[i])]
                 \o <<Call("users.Get", plan.id, <<>>),
                      Call("users.GetIdentities", plan.id, <<>>)>>)

\* an Update that makes the remote's identities the declared ones
UserUpdateReplacing(plan, state, r, f) ==
    LET run == Run(UserUpdateCalls(plan, state, r), r, f, 1)
    IN  [remote |-> IF run.failed THEN run.remote
                    ELSE [run.remote EXCEPT !.ents[plan.id].identities =
                              SelectSeq(plan.identities, LAMBDA i : ~IsOauth2(i))],
         log |-> run.log,
         err |-> IF run.failed THEN "Error Updating User" ELSE "",
         rec |-> IF run.failed THEN state
                 ELSE UserState(plan.id, plan, run.remote.ents[plan.id], plan.identities)]

UserUpdate(plan, state, r, f) ==
    LET run == Run(UserUpdateCalls(plan, state, r), r, f, 1)
        u   == run.remote.ents[plan.id]
    IN  [remote |-> run.remote, log |-> run.log,
         err |-> IF run.failed
                 THEN CASE run.log[Len(run.log)].c = "users.Update" -> "Error Updating User"
                        [] run.log[Len(run.log)].c = "users.GetIdentities" ->
                             "Error Reading User Identities"
                        [] run.log[Len(run.log)].c = "users.AddIdentity" ->
                             "Error Adding User Identity"
                        [] OTHER -> "Error Reading Updated User"
                 ELSE IF ~HasEmail(UserMerged(plan, r)) THEN "Missing Email Identity"
                 ELSE "",
         rec |-> IF run.failed \/ ~HasEmail(UserMerged(plan, r)) THEN state
                 ELSE UserState(plan.id, plan, u, u.identities)]

UserDelete(state, r, f) ==
    LET run == Run(<<Call("users.Delete", state.id, <<>>)>>, r, f, 1)
    IN  [remote |-> run.remote, log |-> run.log,
         err |-> IF run.failed THEN "Error Deleting User" ELSE "",
         rec |-> IF run.failed THEN state ELSE NoRec]

\* sets id, first_name and identities; is_suspended stays null
UserImportState(id, r, f) ==
    LET run == Run(<<Call("users.Get", id, <<>>), Call("users.GetIdentities", id, <<>>)>>,
                   r, f, 1)
    IN  [remote |-> run.remote, log |-> run.log,
         err |-> IF ~run.failed THEN ""
                 ELSE IF Len(run.log) = 1 THEN "Error Reading User"
                 ELSE "Error Reading User Identities",
         rec |-> IF run.failed THEN NoRec
                 ELSE [exists |-> TRUE, id |-> id, first_name |-> Some(r.ents[id].first_name),
                       is_suspended |-> Null, identities |-> r.ents[id].identities]]

---------------------------------------------------------------------------
(* kinde_application: id, name, type, login_uri, logout_uris, client_id and   *)
(* client_secret.  homepage_uri is handled like login_uri and redirect_uris  *)
(* like logout_uris, in the same calls.                                      *)

LogoutURIs == {<<>>, <<"o1">>}

AppConfigs ==
    [name : Names, type : AppTypes, login_uri : {Null, Some("l1")},
     logout_uris : {Null} \cup {Some(l) : l \in LogoutURIs}]

\* the state with the attributes of model m and the credentials of `keys`
AppState(id, m, keys) ==
    [exists |-> TRUE, id |-> id, name |-> m.name, type |-> m.type,
     login_uri |-> m.login_uri, logout_uris |-> m.logout_uris,
     client_id |-> keys.client_id, client_secret |-> keys.client_secret]

\* a test of the optional attributes that looks at login_uri only
AppHasLoginURI(plan) == ~IsNull(plan.login_uri)

\* the optional attributes that make Create send an Update
AppHasSettings(plan) == ~IsNull(plan.login_uri) \/ Len(ValueOr(plan.logout_uris, <<>>)) > 0

AppUpdateParams(name, plan) ==
    [name |-> name, login_uri |-> ValueOr(plan.login_uri, ""),
     logout_uris |-> ValueOr(plan.logout_uris, <<>>)]

\* Create, and an Update when one of the optional attributes is set
AppCreateCalls(plan, id) ==
    <<Call("applications.Create", id, [name |-> plan.name, type |-> plan.type])>>
    \o (IF AppHasSettings(plan)
        THEN <<Call("applications.Update", id, AppUpdateParams("", plan))>>
        ELSE <<>>)

AppCreate(plan, r, f) ==
    LET run == Run(AppCreateCalls(plan, r.next), r, f, 1)
    IN  [remote |-> run.remote, log |-> run.log,
         err |-> IF ~run.failed THEN ""
                 ELSE IF Len(run.log) = 1 THEN "Error Creating Application"
                 ELSE "Error Updating Application",
         rec |-> IF run.failed THEN NoRec
                 ELSE AppState(r.next, plan, run.remote.ents[r.next])]

AppRead(state, r, f) ==
    LET run == Run(<<Call("applications.Get", state.id, <<>>)>>, r, f, 1)
        app == r.ents[state.id]
    IN  [remote |-> run.remote, log |-> run.log,
         err |-> IF run.failed THEN "Error Reading Application" ELSE "",
         rec |-> IF run.failed THEN state
                 ELSE AppState(state.id,
                               [name |-> app.name, type |-> app.type,
                                login_uri |-> IF app.login_uri # "" THEN Some(app.login_uri)
                                              ELSE Null,
                                logout_uris |-> state.logout_uris], app)]

AppUpdate(plan, state, r, f) ==
    LET run == Run(<<Call("applications.Update", state.id,
                          AppUpdateParams(plan.name, plan))>>, r, f, 1)
    IN  [remote |-> run.remote, log |-> run.log,
         err |-> IF run.failed THEN "Error Updating Application" ELSE "",
         rec |-> IF run.failed THEN state ELSE AppState(state.id, plan, state)]

\* a Delete after which no record is left whether or not the call succeeded
DeleteByForgetting(c, title, state, r, f) ==
    LET run == Run(<<Call(c, state.id, <<>>)>>, r, f, 1)
    IN  [remote |-> run.remote, log |-> run.log,
         err |-> IF run.failed THEN title ELSE "",
         rec |-> NoRec]

\* Delete of the kinds whose handler issues the one call named c
DeleteBy(c, title, state, r, f) ==
    LET run == Run(<<Call(c, state.id, <<>>)>>, r, f, 1)
    IN  [remote |-> run.remote, log |-> run.log,
         err |-> IF run.failed THEN title ELSE "",
         rec |-> IF run.failed THEN state ELSE NoRec]

\* resource.ImportStatePassthroughID: the id and nothing else
ImportStatePassthroughID(id, r) ==
    [remote |-> r, log |-> <<>>, err |-> "",
     rec |-> AppState(id, [name |-> Unset, type |-> Unset, login_uri |-> Null,
                           logout_uris |-> Null],
                      [client_id |-> Unset, client_secret |-> Unset])]

---------------------------------------------------------------------------
(* kinde_connection: id, name, strategy and options.  display_name travels   *)
(* with name in every call.                                                  *)

\* options is left out, written as {} or written with both credentials:
\* ValidateConfig refuses an object that sets one credential only
ConnConfigs ==
    [name : Names, strategy : Strategies,
     options : {Null} \cup {Some(x) : x \in Secrets \cup {EmptyOptions}}]

\* an options modifier that takes a configured {} for no configuration
optionsEmptyAsAbsent(config, state) ==
    IF ~IsNull(config) /\ config # Some(EmptyOptions) THEN config
    ELSE IF state.exists /\ ~IsNull(state.options) THEN state.options
    ELSE config

\* an options modifier that plans what the configuration says
optionsFromConfig(config, state) == config

\* optionsEmptyPreserveModifier.PlanModifyObject
optionsEmptyPreserveModifier(config, state) ==
    IF ~IsNull(config) THEN config
    ELSE IF state.exists /\ ~IsNull(state.options) THEN state.options
    ELSE config

ConnPlan(c, state) ==
    [name |-> c.name, strategy |-> c.strategy,
     options |-> optionsEmptyPreserveModifier(c.options, state)]

ConnState(id, m) ==
    [exists |-> TRUE, id |-> id, name |-> m.name, strategy |-> m.strategy,
     options |-> m.options]

\* convertOptionsToMap fails: options are planned for a strategy outside the list
ConvertFails(plan) == ~IsNull(plan.options) /\ plan.strategy # "oauth2:google"

ConnCreate(plan, r, f) ==
    LET run == Run(IF ConvertFails(plan) THEN <<>>
                   ELSE <<Call("connections.Create", r.next, plan)>>, r, f, 1)
    IN  [remote |-> run.remote, log |-> run.log,
         err |-> IF ConvertFails(plan) THEN "Error Converting Options"
                 ELSE IF run.failed THEN "Error Creating Connection" ELSE "",
         rec |-> IF run.failed \/ ConvertFails(plan) THEN NoRec ELSE ConnState(r.next, plan)]

ConnRead(state, r, f) ==
    LET run == Run(<<Call("connections.Get", state.id, <<>>)>>, r, f, 1)
    IN  [remote |-> run.remote, log |-> run.log,
         err |-> IF run.failed THEN "Error Reading Connection" ELSE "",
         rec |-> IF run.failed THEN state
                 ELSE ConnState(state.id, [name |-> r.ents[state.id].name,
                                           strategy |-> r.ents[state.id].strategy,
                                           options |-> state.options])]

\* an Update that stores the plan whether or not the remote call succeeded
ConnUpdateStoringPlan(plan, state, r, f) ==
    LET run == Run(<<Call("connections.Update", state.id,
                          [name |-> plan.name, options |-> plan.options])>>, r, f, 1)
    IN  [remote |-> run.remote, log |-> run.log,
         err |-> IF run.failed THEN "Error Updating Connection" ELSE "",
         rec |-> ConnState(state.id, plan)]

ConnUpdate(plan, state, r, f) ==
    LET run == Run(IF ConvertFails(plan) THEN <<>>
                   ELSE <<Call("connections.Update", state.id,
                               [name |-> plan.name, options |-> plan.options])>>, r, f, 1)
    IN  [remote |-> run.remote, log |-> run.log,
         err |-> IF ConvertFails(plan) THEN "Error Converting Options"
                 ELSE IF run.failed THEN "Error Updating Connection" ELSE "",
         rec |-> IF run.failed \/ ConvertFails(plan) THEN state ELSE ConnState(state.id, plan)]

---------------------------------------------------------------------------
(* kinde_permission: id, name and key.  description travels with name.      *)

PermissionConfigs == [name : Names, key : Keys]

\* flattenPermissionResource of the permission with id `id` of remote r
flattenPermissionResource(r, id) ==
    [exists |-> TRUE, id |-> id, name |-> r.ents[id].name, key |-> r.ents[id].key]

\* Create and Update: the mutating call, then Search by the plan's name and
\* key; the state is the permission Search found
PermissionApply(c, id, title, plan, state, r, f) ==
    LET run   == Run(<<Call(c, id, plan), Call("permissions.Search", id, plan)>>, r, f, 1)
        found == Min(PermissionMatches(run.remote, plan))
    IN  [remote |-> run.remote, log |-> run.log,
         err |-> IF ~run.failed THEN "" ELSE title[Len(run.log)],
         rec |-> IF run.failed THEN state ELSE flattenPermissionResource(run.remote, found)]

\* List, then the permission with the state's id, else the first with the
\* state's name and key, else the resource is removed from the state
PermissionRead(state, r, f) ==
    LET run == Run(<<Call("permissions.List", state.id, <<>>)>>, r, f, 1)
    IN  [remote |-> run.remote, log |-> run.log,
         err |-> IF run.failed THEN "Error Reading Permission" ELSE "",
         rec |-> IF run.failed THEN state
                 ELSE IF state.id \in DOMAIN r.ents THEN flattenPermissionResource(r, state.id)
                 ELSE IF PermissionMatches(r, state) # {}
                 THEN flattenPermissionResource(r, Min(PermissionMatches(r, state)))
                 ELSE NoRec]

PermissionImportState(id, r, f) ==
    LET run == Run(<<Call("permissions.List", id, <<>>)>>, r, f, 1)
    IN  [remote |-> run.remote, log |-> run.log,
         err |-> IF run.failed \/ id \notin DOMAIN r.ents THEN "Error Reading Permission" ELSE "",
         rec |-> IF run.failed \/ id \notin DOMAIN r.ents THEN NoRec
                 ELSE flattenPermissionResource(r, id)]

---------------------------------------------------------------------------
(* kinde_api, kinde_user_role, kinde_application_connection: every           *)
(* configurable attribute forces replacement, so Terraform never calls       *)
(* their Update.                                                             *)
(*   api remote:                    ents |-> [id -> [name, audience]]        *)
(*   user_role remote:              ents |-> [<<org, user>> -> role ids]     *)
(*   application_connection remote: ents |-> [<<app, connection>> -> TRUE]   *)

\* the outcome of a handler whose calls ran as `run`: the record is ok when
\* every call succeeded and prior when one failed, with the titles' error
Outcome(run, titles, ok, prior) ==
    [remote |-> run.remote, log |-> run.log,
     err |-> IF run.failed THEN titles[Len(run.log)] ELSE "",
     rec |-> IF run.failed THEN prior ELSE ok]

APIConfigs == [name : Names, audience : Audiences]

flattenAPIResource(id, api) ==
    [exists |-> TRUE, id |-> id, name |-> api.name, audience |-> api.audience]

UserRoleConfigs == [organization_code : Orgs, user_id : Users, role_id : Members]

UserRoleState(m) ==
    [exists |-> TRUE, id |-> <<m.organization_code, m.user_id, m.role_id>>,
     organization_code |-> m.organization_code, user_id |-> m.user_id, role_id |-> m.role_id]

AppConnConfigs == [application_id : AppIds, connection_id : ConnIds]

AppConnState(m) ==
    [exists |-> TRUE, id |-> <<m.application_id, m.connection_id>>,
     application_id |-> m.application_id, connection_id |-> m.connection_id]

---------------------------------------------------------------------------
(* Planning: what Terraform does with a configuration and a prior record *)

\* a schema in which no attribute forces replacement
RequiresReplaceNone(k) == {}

\* attributes whose schema carries stringplanmodifier.RequiresReplace()
RequiresReplace(k) ==
    CASE k = "organization_user" -> {"organization_code", "user_id"}
      [] k = "application" -> {"type"}
      [] k = "api" -> {"name", "audience"}
      [] k = "user_role" -> {"organization_code", "user_id", "role_id"}
      [] k = "application_connection" -> {"application_id", "connection_id"}
      [] OTHER -> {}

\* the attributes a configuration of the kind sets
ConfigAttrs(k) ==
    CASE k = "role" -> {"name", "key", "description", "permissions"}
      [] k = "organization_user" -> {"organization_code", "user_id", "roles", "permissions"}
      [] k = "user" -> {"first_name", "is_suspended", "identities"}
      [] k = "application" -> {"name", "type", "login_uri", "logout_uris"}
      [] k = "connection" -> {"name", "strategy", "options"}
      [] k = "permission" -> {"name", "key"}
      [] k = "api" -> {"name", "audience"}
      [] k = "user_role" -> {"organization_code", "user_id", "role_id"}
      [] k = "application_connection" -> {"application_id", "connection_id"}
      [] OTHER -> {}

\* the planned value of attribute a: the configured one, unless a plan
\* modifier of the schema says otherwise
Planned(k, a, c, state) ==
    CASE k = "user" /\ a = "identities" -> identitiesModifier(c.identities, state)
      [] k = "connection" /\ a = "options" -> optionsEmptyPreserveModifier(c.options, state)
      [] OTHER -> c[a]

Changed(k, c, state) == {a \in ConfigAttrs(k) : Planned(k, a, c, state) # state[a]}

\* the configurations of kind k
Configs(k) ==
    CASE k = "role" -> RoleConfigs
      [] k = "organization_user" -> OrgUserConfigs
      [] k = "user" -> UserConfigs
      [] k = "application" -> AppConfigs
      [] k = "connection" -> ConnConfigs
      [] k = "permission" -> PermissionConfigs
      [] k = "api" -> APIConfigs
      [] k = "user_role" -> UserRoleConfigs
      [] k = "application_connection" -> AppConnConfigs

PlanOp(k, c, state) ==
    IF ~state.exists THEN "Create"
    ELSE IF Changed(k, c, state) \cap RequiresReplace(k) # {} THEN "Replace"
    ELSE IF Changed(k, c, state) # {} THEN "Update"
    ELSE "NoOp"

---------------------------------------------------------------------------
(* Steps *)

\* ids the successful Create calls of log l returned
CreatedIds(l) == {l[i].id : i \in {j \in 1..Len(l) : l[j].ok /\ l[j].c \in {"roles.Create", "users.Create",
                                                            "applications.Create",
                                                            "connections.Create",
                                                            "permissions.Create",
                                                            "apis.Create"}}}

\* the configuration a Read leaves in cfg: the one last applied, when the
\* Read follows a successful Create, Update or Read; none otherwise
KeptCfg == IF op \in {"Create", "Update", "Read"} /\ err = "" THEN cfg ELSE NoCfg

\* the invocation `name` with configuration c continues the recovery from an
\* aborted Update: a Read after the aborted Update or after such a Read, or
\* the Update that applies the same configuration after such a Read
Retrying(name, c) ==
    /\ "none" \notin DOMAIN aborted
    /\ \/ name = "Read" /\ op = "Update" /\ err # ""
       \/ name = "Read" /\ op = "Read" /\ err = ""
       \/ name = "Update" /\ op = "Read" /\ err = "" /\ c = aborted

\* one handler invocation with outcome res
Invoke(name, res, c) ==
    /\ remote' = res.remote
    /\ rec' = res.rec
    /\ log' = res.log
    /\ err' = res.err
    /\ op' = name
    /\ cfg' = c
    /\ made' = made \cup CreatedIds(res.log)
    /\ aborted' = IF name = "Update" /\ res.err # "" THEN c
                  ELSE IF res.err = "" /\ Retrying(name, c) THEN aborted
                  ELSE NoCfg
    /\ UNCHANGED kind

RoleResourceCreate ==
    /\ kind = "role" /\ ~rec.exists /\ remote.next \in Ids(kind)
    /\ \E c \in RoleConfigs :
         \E f \in 0..Len(RoleCreateCalls(RolePlan(c, rec), remote.next)) :
            Invoke("Create", RoleCreate(RolePlan(c, rec), remote, f), c)

RoleResourceRead ==
    /\ kind = "role" /\ rec.exists
    /\ \E f \in 0..1 : Invoke("Read", RoleRead(rec, remote, f), KeptCfg)

RoleResourceUpdate ==
    /\ kind = "role" /\ rec.exists
    /\ \E c \in RoleConfigs :
         /\ PlanOp("role", c, rec) = "Update"
         /\ \E f \in 0..Len(RoleUpdateCalls(RolePlan(c, rec), rec)) :
               Invoke("Update", RoleUpdate(RolePlan(c, rec), rec, remote, f), c)

RoleResourceDelete ==
    /\ kind = "role" /\ rec.exists
    /\ \E f \in 0..1 : Invoke("Delete", RoleDelete(rec, remote, f), NoCfg)

RoleResourceImportState ==
    /\ kind = "role" /\ ~rec.exists
    /\ \E id \in Ids(kind), f \in 0..1 :
          Invoke("ImportState", RoleImportState(id, remote, f), NoCfg)

\* somebody else grants or revokes a permission of a role, or deletes it
RoleDrift ==
    /\ kind = "role" /\ rec.exists
    /\ \E id \in DOMAIN remote.ents \cap {rec.id} :
         \/ \E p \in Members :
              remote' = [remote EXCEPT !.ents[id].permissions =
                            IF p \in @ THEN @ \ {p} ELSE @ \cup {p}]
         \/ remote' = [remote EXCEPT !.ents = Drop(@, id)]
    /\ op' = "Drift" /\ log' = <<>> /\ err' = "" /\ cfg' = NoCfg /\ aborted' = NoCfg
    /\ UNCHANGED <<kind, rec, made>>

\* the model follows one membership at a time: Create is taken when the
\* remote holds no membership other than the planned one
OrganizationUserResourceCreate ==
    /\ kind = "organization_user" /\ ~rec.exists
    /\ \E c \in OrgUserConfigs :
         /\ DOMAIN remote.ents \subseteq {OrgUserKey(c)}
         /\ \E f \in 0..Len(OrgUserCreateCalls(c)) :
               Invoke("Create", OrgUserCreate(c, remote, f), c)

OrganizationUserResourceRead ==
    /\ kind = "organization_user" /\ rec.exists
    /\ \E f \in 0..1 : Invoke("Read", OrgUserRead(rec, remote, f), KeptCfg)

OrganizationUserResourceUpdate ==
    /\ kind = "organization_user" /\ rec.exists
    /\ \E c \in OrgUserConfigs :
         /\ PlanOp(kind, c, rec) = "Update"
         /\ \E f \in 0..Len(OrgUserUpdateCalls(c, rec, remote)) :
               Invoke("Update", OrgUserUpdate(c, rec, remote, f), c)

OrganizationUserResourceDelete ==
    /\ kind = "organization_user" /\ rec.exists
    /\ \E f \in 0..1 : Invoke("Delete", OrgUserDelete(rec, remote, f), NoCfg)

OrganizationUserResourceImportState ==
    /\ kind = "organization_user" /\ ~rec.exists
    /\ \E k \in DOMAIN remote.ents : Invoke("ImportState", OrgUserImportState(k, remote), NoCfg)

\* somebody else assigns or revokes a role of the member, or removes the member
OrganizationUserDrift ==
    /\ kind = "organization_user" /\ rec.exists
    /\ \E k \in DOMAIN remote.ents \cap {rec.id} :
         \/ \E p \in Members :
              remote' = [remote EXCEPT !.ents[k] = IF p \in @ THEN @ \ {p} ELSE @ \cup {p}]
         \/ remote' = [remote EXCEPT !.ents = Drop(@, k), !.perms = {g \in @ : g[1] # k}]
    /\ op' = "Drift" /\ log' = <<>> /\ err' = "" /\ cfg' = NoCfg /\ aborted' = NoCfg
    /\ UNCHANGED <<kind, rec, made>>

UserResourceCreate ==
    /\ kind = "user" /\ ~rec.exists /\ remote.next \in Ids(kind)
    /\ \E c \in UserConfigs :
         \E f \in 0..Len(UserCreateCalls(UserPlan(c, rec), remote.next)) :
            Invoke("Create", UserCreate(UserPlan(c, rec), remote, f), c)

UserResourceRead ==
    /\ kind = "user" /\ rec.exists
    /\ \E f \in 0..2 : Invoke("Read", UserRead(rec, remote, f), KeptCfg)

UserResourceUpdate ==
    /\ kind = "user" /\ rec.exists
    /\ \E c \in UserConfigs :
         /\ PlanOp(kind, c, rec) = "Update"
         /\ \E f \in 0..Len(UserUpdateCalls(UserPlan(c, rec), rec, remote)) :
               Invoke("Update", UserUpdate(UserPlan(c, rec), rec, remote, f), c)

UserResourceDelete ==
    /\ kind = "user" /\ rec.exists
    /\ \E f \in 0..1 : Invoke("Delete", UserDelete(rec, remote, f), NoCfg)

UserResourceImportState ==
    /\ kind = "user" /\ ~rec.exists
    /\ \E id \in Ids(kind), f \in 0..2 :
          Invoke("ImportState", UserImportState(id, remote, f), NoCfg)

\* the user signs in with a social account: the remote gains an oauth2
\* identity that no configuration declares; or somebody suspends or
\* reinstates the user; or the user is deleted
UserDrift ==
    /\ kind = "user" /\ rec.exists
    /\ \E id \in DOMAIN remote.ents \cap {rec.id} :
         \/ /\ Google \notin Range(remote.ents[id].identities)
            /\ remote' = [remote EXCEPT !.ents[id].identities = Append(@, Google)]
         \/ remote' = [remote EXCEPT !.ents[id].is_suspended = ~@]
         \/ remote' = [remote EXCEPT !.ents = Drop(@, id)]
    /\ op' = "Drift" /\ log' = <<>> /\ err' = "" /\ cfg' = NoCfg /\ aborted' = NoCfg
    /\ UNCHANGED <<kind, rec, made>>

ApplicationResourceCreate ==
    /\ kind = "application" /\ ~rec.exists /\ remote.next \in Ids(kind)
    /\ \E c \in AppConfigs :
         \E f \in 0..Len(AppCreateCalls(c, remote.next)) :
            Invoke("Create", AppCreate(c, remote, f), c)

ApplicationResourceRead ==
    /\ kind = "application" /\ rec.exists
    /\ \E f \in 0..1 : Invoke("Read", AppRead(rec, remote, f), KeptCfg)

ApplicationResourceUpdate ==
    /\ kind = "application" /\ rec.exists
    /\ \E c \in AppConfigs :
         /\ PlanOp(kind, c, rec) = "Update"
         /\ \E f \in 0..1 : Invoke("Update", AppUpdate(c, rec, remote, f), c)

\* Delete, on its own or as the first half of a replacement planned for c
ApplicationResourceDelete ==
    /\ kind = "application" /\ rec.exists
    /\ \E c \in {NoCfg} \cup {x \in AppConfigs : PlanOp(kind, x, rec) = "Replace"} :
         \E f \in 0..1 :
            Invoke("Delete", DeleteBy("applications.Delete", "Error Deleting Application",
                                      rec, remote, f), c)

ApplicationResourceImportState ==
    /\ kind = "application" /\ ~rec.exists
    /\ \E id \in Ids(kind) : Invoke("ImportState", ImportStatePassthroughID(id, remote), NoCfg)

ConnectionResourceCreate ==
    /\ kind = "connection" /\ ~rec.exists /\ remote.next \in Ids(kind)
    /\ \E c \in ConnConfigs, f \in 0..1 :
          Invoke("Create", ConnCreate(ConnPlan(c, rec), remote, f), c)

ConnectionResourceRead ==
    /\ kind = "connection" /\ rec.exists
    /\ \E f \in 0..1 : Invoke("Read", ConnRead(rec, remote, f), KeptCfg)

ConnectionResourceUpdate ==
    /\ kind = "connection" /\ rec.exists
    /\ \E c \in ConnConfigs :
         /\ PlanOp(kind, c, rec) = "Update"
         /\ \E f \in 0..1 : Invoke("Update", ConnUpdate(ConnPlan(c, rec), rec, remote, f), c)

ConnectionResourceDelete ==
    /\ kind = "connection" /\ rec.exists
    /\ \E f \in 0..1 :
          Invoke("Delete", DeleteBy("connections.Delete", "Error Deleting Connection",
                                    rec, remote, f), NoCfg)

\* ImportStatePassthroughID: the id and nothing else
ConnectionResourceImportState ==
    /\ kind = "connection" /\ ~rec.exists
    /\ \E id \in Ids(kind) :
          Invoke("ImportState",
                 [remote |-> remote, log |-> <<>>, err |-> "",
                  rec |-> ConnState(id, [name |-> Unset, strategy |-> Unset, options |-> Null])],
                 NoCfg)

\* somebody else renames the connection, replaces its options or deletes it
ConnectionDrift ==
    /\ kind = "connection" /\ rec.exists
    /\ \E id \in DOMAIN remote.ents \cap {rec.id} :
         \/ \E n \in Names \ {remote.ents[id].name} :
               remote' = [remote EXCEPT !.ents[id].name = n]
         \/ \E x \in Secrets \ Range(remote.ents[id].options) :
               remote' = [remote EXCEPT !.ents[id].options = Some(x)]
         \/ remote' = [remote EXCEPT !.ents = Drop(@, id)]
    /\ op' = "Drift" /\ log' = <<>> /\ err' = "" /\ cfg' = NoCfg /\ aborted' = NoCfg
    /\ UNCHANGED <<kind, rec, made>>

PermissionResourceCreate ==
    /\ kind = "permission" /\ ~rec.exists /\ remote.next \in Ids(kind)
    /\ \E c \in PermissionConfigs, f \in 0..2 :
          Invoke("Create",
                 PermissionApply("permissions.Create", remote.next,
                                 <<"Error Creating Permission", "Error Reading Created Permission">>,
                                 c, NoRec, remote, f), c)

PermissionResourceRead ==
    /\ kind = "permission" /\ rec.exists
    /\ \E f \in 0..1 : Invoke("Read", PermissionRead(rec, remote, f), KeptCfg)

PermissionResourceUpdate ==
    /\ kind = "permission" /\ rec.exists
    /\ \E c \in PermissionConfigs :
         /\ PlanOp(kind, c, rec) = "Update"
         /\ \E f \in 0..2 :
               Invoke("Update",
                      PermissionApply("permissions.Update", rec.id,
                                      <<"Error Updating Permission",
                                        "Error Reading Updated Permission">>,
                                      c, rec, remote, f), c)

PermissionResourceDelete ==
    /\ kind = "permission" /\ rec.exists
    /\ \E f \in 0..1 :
          Invoke("Delete", DeleteBy("permissions.Delete", "Error Deleting Permission",
                                    rec, remote, f), NoCfg)

PermissionResourceImportState ==
    /\ kind = "permission" /\ ~rec.exists
    /\ \E id \in Ids(kind), f \in 0..1 :
          Invoke("ImportState", PermissionImportState(id, remote, f), NoCfg)

\* somebody else deletes the permission, or creates one under a free key
PermissionDrift ==
    /\ kind = "permission" /\ rec.exists
    /\ \/ \E id \in DOMAIN remote.ents \cap {rec.id} :
             remote' = [remote EXCEPT !.ents = Drop(@, id)]
       \/ /\ remote.next \in Ids(kind)
          /\ \E c \in PermissionConfigs :
               /\ \A id \in DOMAIN remote.ents : remote.ents[id].key # c.key
               /\ remote' = [next |-> remote.next + 1,
                             ents |-> (remote.next :> c) @@ remote.ents]
    /\ op' = "Drift" /\ log' = <<>> /\ err' = "" /\ cfg' = NoCfg /\ aborted' = NoCfg
    /\ UNCHANGED <<kind, rec, made>>

APIResourceCreate ==
    /\ kind = "api" /\ ~rec.exists /\ remote.next \in Ids(kind)
    /\ \E c \in APIConfigs, f \in 0..2 :
         LET id  == remote.next
             run == Run(<<Call("apis.Create", id, c), Call("apis.Get", id, <<>>)>>, remote, f, 1)
         IN  Invoke("Create",
                    Outcome(run, <<"Error Creating API", "Error Reading API">>,
                            flattenAPIResource(id, c), NoRec), c)

APIResourceRead ==
    /\ kind = "api" /\ rec.exists
    /\ \E f \in 0..1 :
         LET run == Run(<<Call("apis.Get", rec.id, <<>>)>>, remote, f, 1)
         IN  Invoke("Read",
                    Outcome(run, <<"Error Reading API">>,
                            flattenAPIResource(rec.id, remote.ents[rec.id]), rec), KeptCfg)

\* an Update that accepts the plan as the new record
UpdateStoringPlan(title, state, r) ==
    [remote |-> r, log |-> <<>>, err |-> "", rec |-> state]

\* Update of the kinds that cannot be updated: an error diagnostic and
\* nothing else, the response state staying the prior record
UpdateNotSupported(title, state, r) ==
    [remote |-> r, log |-> <<>>, err |-> title, rec |-> state]

\* the handler answers whatever plan it is handed; every attribute a
\* configuration sets forces replacement, so Terraform plans no Update itself
APIResourceUpdate ==
    /\ kind = "api" /\ rec.exists
    /\ \E c \in APIConfigs :
         Invoke("Update", UpdateNotSupported("API Update Not Supported", rec, remote), c)

\* Delete, on its own or as the first half of a replacement planned for c
APIResourceDelete ==
    /\ kind = "api" /\ rec.exists
    /\ \E c \in {NoCfg} \cup {x \in APIConfigs : PlanOp(kind, x, rec) = "Replace"} :
         \E f \in 0..1 :
            Invoke("Delete", DeleteBy("apis.Delete", "Error Deleting API", rec, remote, f), c)

APIResourceImportState ==
    /\ kind = "api" /\ ~rec.exists
    /\ \E id \in Ids(kind) :
         Invoke("ImportState",
                [remote |-> remote, log |-> <<>>, err |-> "",
                 rec |-> flattenAPIResource(id, [name |-> Unset, audience |-> Unset])], NoCfg)

\* a Create that assigns the role without checking the membership
UserRoleResourceCreateUnchecked ==
    /\ kind = "user_role" /\ ~rec.exists
    /\ \E c \in UserRoleConfigs, f \in 0..1 :
         LET k   == <<c.organization_code, c.user_id>>
             run == Run(<<Call("organizations.AddUserRole", k, c.role_id)>>, remote, f, 1)
         IN  Invoke("Create",
                    Outcome(run, <<"Error Assigning Role to User">>, UserRoleState(c), NoRec), c)

\* GetUserRoles to check the membership, then AddUserRole; the remote's
\* answer for a user outside the organization has its own error
UserRoleResourceCreate ==
    /\ kind = "user_role" /\ ~rec.exists
    /\ \E c \in UserRoleConfigs, f \in 0..2 :
         LET k     == <<c.organization_code, c.user_id>>
             check == Call("organizations.GetUserRoles", k, <<>>)
             run   == Run(<<check, Call("organizations.AddUserRole", k, c.role_id)>>,
                          remote, f, 1)
         IN  Invoke("Create",
                    Outcome(run, <<IF f # 1 /\ NotFound(check, remote)
                                   THEN "User Not in Organization"
                                   ELSE "Error Checking User Organization Membership",
                                   "Error Assigning Role to User">>, UserRoleState(c), NoRec), c)

\* the record is removed when the remote no longer lists the role
UserRoleResourceRead ==
    /\ kind = "user_role" /\ rec.exists
    /\ \E f \in 0..1 :
         LET k   == <<rec.organization_code, rec.user_id>>
             run == Run(<<Call("organizations.GetUserRoles", k, <<>>)>>, remote, f, 1)
         IN  Invoke("Read",
                    Outcome(run, <<"Error Reading User Roles">>,
                            IF rec.role_id \in Range(GetUserRoles(remote, k)) THEN rec ELSE NoRec,
                            rec), KeptCfg)

UserRoleResourceUpdate ==
    /\ kind = "user_role" /\ rec.exists
    /\ \E c \in UserRoleConfigs :
         Invoke("Update", UpdateNotSupported("Update Not Supported", rec, remote), c)

UserRoleResourceDelete ==
    /\ kind = "user_role" /\ rec.exists
    /\ \E c \in {NoCfg} \cup {x \in UserRoleConfigs : PlanOp(kind, x, rec) = "Replace"} :
         \E f \in 0..1 :
            LET k   == <<rec.organization_code, rec.user_id>>
                run == Run(<<Call("organizations.RemoveUserRole", k, rec.role_id)>>, remote, f, 1)
            IN  Invoke("Delete", Outcome(run, <<"Error Removing Role from User">>, NoRec, rec), c)

ApplicationConnectionResourceCreate ==
    /\ kind = "application_connection" /\ ~rec.exists
    /\ \E c \in AppConnConfigs, f \in 0..1 :
         LET run == Run(<<Call("applications.EnableConnection",
                               <<c.application_id, c.connection_id>>, <<>>)>>, remote, f, 1)
         IN  Invoke("Create", Outcome(run, <<"Error Enabling Connection">>, AppConnState(c), NoRec), c)

\* the record is removed when the application no longer lists the connection
ApplicationConnectionResourceRead ==
    /\ kind = "application_connection" /\ rec.exists
    /\ \E f \in 0..1 :
         LET run == Run(<<Call("applications.GetConnections", rec.id, <<>>)>>, remote, f, 1)
         IN  Invoke("Read",
                    Outcome(run, <<"Error Reading Application Connections">>,
                            IF rec.id \in DOMAIN remote.ents THEN rec ELSE NoRec, rec), KeptCfg)

ApplicationConnectionResourceDelete ==
    /\ kind = "application_connection" /\ rec.exists
    /\ \E c \in {NoCfg} \cup {x \in AppConnConfigs : PlanOp(kind, x, rec) = "Replace"} :
         \E f \in 0..1 :
            LET run == Run(<<Call("applications.DisableConnection", rec.id, <<>>)>>, remote, f, 1)
            IN  Invoke("Delete", Outcome(run, <<"Error Disabling Connection">>, NoRec, rec), c)

\* somebody else revokes the role or disables the connection
AssignmentDrift ==
    /\ kind \in {"user_role", "application_connection"} /\ rec.exists
    /\ \/ /\ kind = "user_role"
          /\ \E k \in DOMAIN remote.ents :
               /\ rec.role_id \in remote.ents[k]
               /\ remote' = [remote EXCEPT !.ents[k] = @ \ {rec.role_id}]
       \/ /\ kind = "application_connection"
          /\ rec.id \in DOMAIN remote.ents
          /\ remote' = [remote EXCEPT !.ents = Drop(@, rec.id)]
    /\ op' = "Drift" /\ log' = <<>> /\ err' = "" /\ cfg' = NoCfg /\ aborted' = NoCfg
    /\ UNCHANGED <<kind, rec, made>>

NoEnts == [i \in {} |-> 0]

Kinds ==
    {"role", "organization_user", "user", "application", "connection", "permission",
     "api", "user_role", "application_connection"}

InitRemote(k) ==
    \* a user_role is managed for users that are members already
    CASE k = "user_role" -> {[next |-> 1, ents |-> (<<"o1", "u1">> :> {})]}
      [] k = "organization_user" -> {[next |-> 1, ents |-> NoEnts, perms |-> {}]}
      [] OTHER -> {[next |-> 1, ents |-> NoEnts]}

Init ==
    /\ kind \in Kinds
    /\ remote \in InitRemote(kind)
    /\ rec = NoRec
    /\ cfg = NoCfg
    /\ log = <<>>
    /\ err = ""
    /\ op = "Init"
    /\ made = {}
    /\ aborted = NoCfg

Next ==
    \/ RoleResourceCreate
    \/ RoleResourceRead
    \/ RoleResourceUpdate
    \/ RoleResourceDelete
    \/ RoleResourceImportState
    \/ RoleDrift
    \/ OrganizationUserResourceCreate
    \/ OrganizationUserResourceRead
    \/ OrganizationUserResourceUpdate
    \/ OrganizationUserResourceDelete
    \/ OrganizationUserResourceImportState
    \/ OrganizationUserDrift
    \/ UserResourceCreate
    \/ UserResourceRead
    \/ UserResourceUpdate
    \/ UserResourceDelete
    \/ UserResourceImportState
    \/ UserDrift
    \/ ApplicationResourceCreate
    \/ ApplicationResourceRead
    \/ ApplicationResourceUpdate
    \/ ApplicationResourceDelete
    \/ ApplicationResourceImportState
    \/ ConnectionResourceCreate
    \/ ConnectionResourceRead
    \/ ConnectionResourceUpdate
    \/ ConnectionResourceDelete
    \/ ConnectionResourceImportState
    \/ ConnectionDrift
    \/ PermissionResourceCreate
    \/ PermissionResourceRead
    \/ PermissionResourceUpdate
    \/ PermissionResourceDelete
    \/ PermissionResourceImportState
    \/ PermissionDrift
    \/ APIResourceCreate
    \/ APIResourceRead
    \/ APIResourceUpdate
    \/ APIResourceDelete
    \/ APIResourceImportState
    \/ UserRoleResourceCreate
    \/ UserRoleResourceRead
    \/ UserRoleResourceUpdate
    \/ UserRoleResourceDelete
    \/ ApplicationConnectionResourceCreate
    \/ ApplicationConnectionResourceRead
    \/ ApplicationConnectionResourceDelete
    \/ AssignmentDrift

Spec == Init /\ [][Next]_vars

---------------------------------------------------------------------------
(* Composite ids.  organization_user, user_role and application_connection *)
(* records carry an id that Create joins from the component attributes and *)
(* that ImportState splits again.  Here an attribute value is a string     *)
(* spelled out as its characters, so that the separator can occur in it.   *)

\* component values are the strings of at most MaxIdLen characters
MaxIdLen == 2

\* the strings over a character that is not the separator and the separator
Components == UNION {[1..n -> {"a", ":"}] : n \in 0..MaxIdLen}

\* the component attributes of a record of kind k, in the order of its id
CompositeFields(k) ==
    CASE k = "organization_user" -> <<"organization_code", "user_id">>
      [] k = "user_role" -> <<"organization_code", "user_id", "role_id">>
      [] k = "application_connection" -> <<"application_id", "connection_id">>

\* fmt.Sprintf("%s:%s", ...) and fmt.Sprintf("%s:%s:%s", ...)
RECURSIVE JoinID(_)
JoinID(parts) ==
    IF Len(parts) = 1 THEN parts[1] ELSE parts[1] \o <<":">> \o JoinID(Tail(parts))

\* strings.Split(s, ":")
RECURSIVE Split(_)
Split(s) ==
    IF \A i \in 1..Len(s) : s[i] # ":" THEN <<s>>
    ELSE LET i == CHOOSE i \in 1..Len(s) : s[i] = ":" /\ \A j \in 1..(i - 1) : s[j] # ":"
         IN  <<SubSeq(s, 1, i - 1)>> \o Split(SubSeq(s, i + 1, Len(s)))

\* a split that takes the first parts and does not count them
splitIDLenient(id, expectedParts) == SubSeq(Split(id), 1, expectedParts)

\* the parts, or no parts when their number is not the expected one
splitID(id, expectedParts) ==
    LET parts == Split(id)
    IN  IF Len(parts) # expectedParts THEN <<>> ELSE parts

\* a record with the id and the component attributes set
CompositeRecord(k, id, parts) ==
    LET F == CompositeFields(k)
    IN  [a \in {"exists", "id"} \cup Range(F) |->
            IF a = "exists" THEN TRUE
            ELSE IF a = "id" THEN id
            ELSE parts[CHOOSE i \in 1..Len(F) : F[i] = a]]

\* the id and the component attributes of the state a successful Create
\* writes for a plan with the component values parts
CompositeCreate ==
    /\ op = "Init"
    /\ \E parts \in [1..Len(CompositeFields(kind)) -> Components] :
         /\ rec' = CompositeRecord(kind, JoinID(parts), parts)
         /\ cfg' = [CompositeRecord(kind, <<>>, parts) EXCEPT !.exists = FALSE]
    /\ op' = "Create" /\ log' = <<>> /\ err' = ""
    /\ UNCHANGED <<kind, remote, made, aborted>>

\* ImportState of the id Create wrote, into an empty state
CompositeImportState ==
    /\ op = "Create"
    /\ LET parts == splitID(rec.id, Len(CompositeFields(kind)))
       IN  IF parts = <<>>
           THEN rec' = NoRec /\ err' = "Invalid Import ID"
           ELSE rec' = CompositeRecord(kind, rec.id, parts) /\ err' = ""
    /\ op' = "ImportState" /\ log' = <<>>
    /\ UNCHANGED <<kind, remote, cfg, made, aborted>>

InitRoundTrip ==
    /\ kind \in {"organization_user", "user_role", "application_connection"}
    /\ remote \in InitRemote(kind)
    /\ rec = NoRec
    /\ cfg = NoCfg
    /\ log = <<>>
    /\ err = ""
    /\ op = "Init"
    /\ made = {}
    /\ aborted = NoCfg

NextRoundTrip ==
    \/ CompositeCreate
    \/ CompositeImportState

SpecRoundTrip == InitRoundTrip /\ [][NextRoundTrip]_vars

---------------------------------------------------------------------------

(* Properties *)

\* the members the calls named c of log l were given, one at a time
Given(l, c) == {l[i].a : i \in Issued(l, c)}

\* the members handed over in the list arguments of the calls named c
GivenLists(l, c) == UNION {Range(l[i].a) : i \in Issued(l, c)}

\* C1: a role Update whose calls all succeed issues RemovePermission once for
\* each permission of the prior record that is not declared and for no
\* other, and hands the declared permissions that the prior record lacks,
\* and no other, to one UpdatePermissions call; it issues no
\* UpdatePermissions call when there is none to add.
C1_RolePermissionDelta ==
    [][(kind = "role" /\ op' = "Update" /\ err' = "") =>
         LET B == ValueOr(rec.permissions, {})
             A == ValueOr(cfg'.permissions, {})
         IN  /\ Given(log', "roles.RemovePermission") = B \ A
             /\ Cardinality(Issued(log', "roles.RemovePermission")) = Cardinality(B \ A)
             /\ GivenLists(log', "roles.UpdatePermissions") = A \ B
             /\ Cardinality(Issued(log', "roles.UpdatePermissions"))
                  = IF A \ B = {} THEN 0 ELSE 1
             /\ Given(log', "roles.RemovePermission")
                  \cap GivenLists(log', "roles.UpdatePermissions") = {}]_vars

\* a successful role Update that both removed and added permissions while
\* one permission stayed
C1_Witness ==
    /\ kind = "role" /\ op = "Update" /\ err = ""
    /\ Issued(log, "roles.RemovePermission") # {}
    /\ Issued(log, "roles.UpdatePermissions") # {}

RemoveCalls == {"roles.RemovePermission", "organizations.RemoveUserRole"}

AddCalls == {"roles.UpdatePermissions", "organizations.AddUserRole"}

\* positions in log l of the calls whose name is in set C
IssuedIn(l, C) == {i \in 1..Len(l) : l[i].c \in C}

\* the association attribute of a role or organization_user configuration
Association(k, c) == IF k = "role" THEN c.permissions ELSE c.roles

C4_RemovalsPrecedeAdditions ==
    (kind \in {"role", "organization_user"} /\ op = "Update")
        => \A i \in IssuedIn(log, RemoveCalls), j \in IssuedIn(log, AddCalls) : i < j

\* an organization_user Update that issued a remove call and an add call
C4_Witness ==
    /\ kind = "organization_user" /\ op = "Update"
    /\ Issued(log, "organizations.RemoveUserRole") # {}
    /\ Issued(log, "organizations.AddUserRole") # {}

\* C2: no user Create, Read, Update or ImportState issues a call other than
\* Create, Get, GetIdentities, Update and AddIdentity, and every oauth2
\* identity the remote holds before such a step it holds after it.
C2_ForeignMemberSafety ==
    [][(kind = "user" /\ op' \in {"Create", "Read", "Update", "ImportState"})
        => /\ \A i \in 1..Len(log') : log'[i].c \in UserCallNames \ {"users.Delete"}
           /\ \A id \in DOMAIN remote.ents :
                /\ id \in DOMAIN remote'.ents
                /\ \A x \in Range(remote.ents[id].identities) :
                      IsOauth2(x) => x \in Range(remote'.ents[id].identities)]_vars

\* a successful user Update whose configuration declares no oauth2 identity
\* while the remote holds one
C2_Witness ==
    /\ kind = "user" /\ op = "Update" /\ err = ""
    /\ \A i \in 1..Len(cfg.identities) : ~IsOauth2(cfg.identities[i])
    /\ Google \in Range(remote.ents[rec.id].identities)

\* the first call of a Create that makes the entity on the remote
CreateCalls ==
    {"roles.Create", "users.Create", "applications.Create", "connections.Create",
     "permissions.Create", "apis.Create", "organizations.AddUsers"}

IsConfig(c) == "none" \notin DOMAIN c

\* C5 as stated: once the remote Create call of a Create invocation has
\* succeeded the invocation ends with a record holding the new entity's id,
\* and no entity the provider created is on the remote without a record
\* that refers to it.
C5_NoPartialStateDiscarded ==
    /\ (op = "Create" /\ log # <<>> /\ log[1].ok /\ log[1].c \in CreateCalls)
          => (rec.exists /\ rec.id = log[1].id)
    /\ \A id \in made \cap DOMAIN remote.ents : rec.exists /\ rec.id = id

\* C6: when a remote call of a Create, Read or Update fails, the record
\* after the invocation is the record before it, an error is raised, and the
\* failed call is the last call of the invocation.
C6_FailureLeavesRecord ==
    [][(op' \in {"Create", "Read", "Update"} /\ \E i \in 1..Len(log') : ~log'[i].ok)
        => /\ rec' = rec
           /\ err' # ""
           /\ \A i \in 1..Len(log') : ~log'[i].ok => i = Len(log')]_vars

\* a role Update that removed a permission on the remote and then failed
C6_Witness ==
    /\ kind = "role" /\ op = "Update" /\ err # ""
    /\ \E i \in Issued(log, "roles.RemovePermission") : log[i].ok
    /\ ~log[Len(log)].ok
    /\ rec.exists

\* C7 as stated: after a successful role Create or Update followed by a
\* successful Read the record equals the configuration on every declared
\* attribute, and planning the same configuration again yields no operation.
C7_RoleIdempotence ==
    (kind = "role" /\ op = "Read" /\ err = "" /\ IsConfig(cfg))
        => /\ \A a \in ConfigAttrs("role") : rec[a] = cfg[a]
           /\ PlanOp("role", cfg, rec) = "NoOp"

\* C8 as stated: the id of a record is the same after every Read and Update
\* of that record, and a Create stores the id the remote's Create returned.
C8_IdStability ==
    [][/\ (rec.exists /\ rec'.exists /\ op' \in {"Read", "Update"}) => rec'.id = rec.id
       /\ (op' = "Create" /\ rec'.exists /\ kind \notin {"user_role", "application_connection"})
             => rec'.id = log'[1].id]_vars

\* the attributes the remote cannot change in place
CreateOnly(k) ==
    CASE k = "application" -> {"type"}
      [] k = "api" -> {"name", "audience"}
      [] k = "organization_user" -> {"organization_code", "user_id"}
      [] k = "user_role" -> {"user_id", "role_id", "organization_code"}
      [] k = "application_connection" -> {"application_id", "connection_id"}
      [] OTHER -> {}

\* C9: for every record and every configuration that differs from it in
\* one create-only attribute and in nothing else, the plan is Replace.
C9_CreateOnlyFields ==
    rec.exists =>
        \A a \in CreateOnly(kind) : \A c \in Configs(kind) :
            Changed(kind, c, rec) = {a} => PlanOp(kind, c, rec) = "Replace"

\* the Delete that begins the replacement of an application whose
\* configuration differs from the record in a create-only attribute
C9_Witness ==
    /\ kind = "application" /\ op = "Delete" /\ err = "" /\ IsConfig(cfg)
    /\ \E i \in 1..Len(log) : log[i].c = "applications.Delete" /\ log[i].ok

\* C10: while the record of a connection holds options, every configuration
\* that omits options plans the record's options, so plans no change for
\* them, and a Read leaves the record's options as they are.
C10_WriteOnlyPreservation ==
    [][(kind = "connection" /\ rec.exists /\ ~IsNull(rec.options))
        => /\ \A c \in ConnConfigs :
                IsNull(c.options)
                   => /\ Planned(kind, "options", c, rec) = rec.options
                      /\ "options" \notin Changed(kind, c, rec)
           /\ op' = "Read" => (rec'.exists /\ rec'.options = rec.options)]_vars

\* a successful Read of a connection whose record holds options, after
\* the remote's name and options were changed by somebody else
C10_Witness ==
    /\ kind = "connection" /\ op = "Read" /\ err = ""
    /\ ~IsNull(rec.options)
    /\ remote.ents[rec.id].options # rec.options

\* C11: a user Create whose configuration declares no identity of type
\* "email" ends with the validation error, has issued no remote call and
\* has written no record.
C11_CreateNeedsEmail ==
    (kind = "user" /\ op = "Create" /\ IsConfig(cfg) /\ ~HasEmail(cfg.identities))
        => /\ err = "Missing Email Identity"
           /\ log = <<>>
           /\ ~rec.exists

\* a user Create with a username identity only
C11_Witness ==
    /\ kind = "user" /\ op = "Create" /\ IsConfig(cfg)
    /\ cfg.identities = <<Username>>
    /\ err # ""

\* C12 as stated: a user Update that ends with the missing-email validation
\* error has issued no remote call and has left the remote as it was.
C12_UpdateValidatesFirst ==
    [][(kind = "user" /\ op' = "Update" /\ err' = "Missing Email Identity")
        => (log' = <<>> /\ remote' = remote)]_vars

\* C13 as stated: a user Update whose record holds first_name and whose
\* configuration omits it ends with an error and has issued no remote call.
C13_NameCannotBeCleared ==
    [][(kind = "user" /\ op' = "Update" /\ rec.exists /\ ~IsNull(rec.first_name)
            /\ IsConfig(cfg') /\ IsNull(cfg'.first_name))
        => (err' # "" /\ log' = <<>>)]_vars

\* the identities of list l that are not oauth2, as a set
NonOauth2(l) == {i \in Range(l) : ~IsOauth2(i)}

\* C14 as stated: after a successful user Update the non-oauth2 identities
\* of the remote user are the declared ones, AddIdentity was issued exactly
\* once for each declared non-oauth2 identity missing from the prior record
\* and for nothing else, and no prior identity that is no longer declared
\* is left on the remote.
C14_UserIdentityDelta ==
    [][(kind = "user" /\ op' = "Update" /\ err' = "" /\ rec.exists)
        => /\ NonOauth2(remote'.ents[rec.id].identities) = NonOauth2(cfg'.identities)
           /\ \A i \in NonOauth2(cfg'.identities) \ Range(rec.identities) :
                 Cardinality({n \in Issued(log', "users.AddIdentity") : log'[n].a = i}) = 1
           /\ \A n \in Issued(log', "users.AddIdentity") :
                 log'[n].a \in NonOauth2(cfg'.identities) \ Range(rec.identities)
           /\ \A i \in NonOauth2(rec.identities) \ Range(cfg'.identities) :
                 i \notin Range(remote'.ents[rec.id].identities)]_vars

\* the permissions a role configuration declares; none when it declares no
\* permissions attribute
Declared(c) == ValueOr(c.permissions, {})

\* C15: when a role Update aborted, a Read succeeded after it and nothing
\* else happened, then either the record already matches the same
\* configuration and the remote holds exactly the declared permissions, or
\* an Update with that configuration and no failure removes only
\* permissions the remote holds and the configuration does not declare, adds
\* only declared permissions the remote lacks, and leaves the remote with
\* exactly the declared permissions.
C15_ConvergenceAfterFailure ==
    [][(kind = "role" /\ op = "Read" /\ err = "" /\ IsConfig(aborted) /\ rec.exists)
        => LET was == remote.ents[rec.id].permissions
               now == remote'.ents[rec.id].permissions
           IN  /\ PlanOp("role", aborted, rec) = "NoOp" => was = Declared(aborted)
               /\ (op' = "Update" /\ cfg' = aborted /\ err' = "")
                     => /\ now = Declared(aborted)
                        /\ Given(log', "roles.RemovePermission") = was \ Declared(aborted)
                        /\ GivenLists(log', "roles.UpdatePermissions") = Declared(aborted) \ was]_vars

\* the successful retry, after a Read, of a role Update that had aborted:
\* it issues a member operation and leaves the declared permissions
C15_Witness ==
    /\ kind = "role" /\ op = "Update" /\ err = ""
    /\ IsConfig(aborted) /\ cfg = aborted
    /\ IssuedIn(log, {"roles.RemovePermission", "roles.UpdatePermissions"}) # {}
    /\ remote.ents[rec.id].permissions = Declared(cfg)

\* the calls of the role and user handlers that change the remote
Mutating ==
    {"roles.Create", "roles.Update", "roles.UpdatePermissions", "roles.RemovePermission",
     "users.Create", "users.Update", "users.AddIdentity"}

\* C16: a successful Create or Update of a role or a user has issued a Get
\* after its last mutating call, and the fields of the record that come
\* from the remote's response hold what the remote holds after that call.
C16_RederivationOrder ==
    (kind \in {"role", "user"} /\ op \in {"Create", "Update"} /\ err = "")
        => LET gets == IssuedIn(log, {"roles.Get", "users.Get"})
               e    == remote.ents[rec.id]
           IN  /\ gets # {}
               /\ \A m \in IssuedIn(log, Mutating) : \E g \in gets : g > m
               /\ rec.exists
               /\ kind = "role" => rec = flattenRoleResource(rec.id, e, e.permissions)
               /\ kind = "user" =>
                     /\ ~IsNull(rec.first_name) => rec.first_name = Some(e.first_name)
                     /\ ~IsNull(rec.is_suspended) => rec.is_suspended = Some(e.is_suspended)
                     /\ op = "Update" => rec.identities = e.identities

\* a role Create that set permissions after its first Get and read the role
\* again: the record holds the permissions
C16_Witness ==
    /\ kind = "role" /\ op = "Create" /\ err = ""
    /\ Issued(log, "roles.UpdatePermissions") # {}
    /\ Cardinality(Issued(log, "roles.Get")) = 2
    /\ ~IsNull(rec.permissions)

\* login_uri is declared, or logout_uris is declared with at least one entry
DeclaresSettings(c) ==
    c.login_uri # Null \/ (c.logout_uris # Null /\ c.logout_uris # Some(<<>>))

\* C17: an application Create issues applications.Create first; when that
\* call succeeded it issues exactly one Update, for the new id and carrying
\* the declared URIs, if the configuration declares a login_uri or a
\* non-empty logout_uris, and no Update otherwise; a successful Create
\* leaves a record with the id, client_id and client_secret the remote
\* assigned and with the declared URIs.
C17_CreateThenUpdate ==
    (kind = "application" /\ op = "Create" /\ IsConfig(cfg))
        => /\ log # <<>> /\ log[1].c = "applications.Create"
           /\ log[1].ok =>
                 /\ Issued(log, "applications.Update")
                       = IF DeclaresSettings(cfg) THEN {2} ELSE {}
                 /\ Len(log) = IF DeclaresSettings(cfg) THEN 2 ELSE 1
                 /\ \A i \in Issued(log, "applications.Update") :
                       /\ log[i].id = log[1].id
                       /\ log[i].a.login_uri = ValueOr(cfg.login_uri, "")
                       /\ log[i].a.logout_uris = ValueOr(cfg.logout_uris, <<>>)
           /\ err = "" =>
                 /\ rec.exists /\ rec.id = log[1].id
                 /\ rec.client_id = remote.ents[rec.id].client_id
                 /\ rec.client_secret = remote.ents[rec.id].client_secret
                 /\ rec.login_uri = cfg.login_uri
                 /\ rec.logout_uris = cfg.logout_uris

\* a successful application Create that declares logout_uris only and has
\* sent the Update
C17_Witness ==
    /\ kind = "application" /\ op = "Create" /\ err = "" /\ IsConfig(cfg)
    /\ cfg.login_uri = Null /\ cfg.logout_uris = Some(<<"o1">>)
    /\ Len(log) = 2 /\ log[2].c = "applications.Update" /\ log[2].ok
    /\ rec.exists

\* C18: the replacement of an application starts with one Delete call for
\* the old id.  While that Delete has not succeeded the record stays and
\* no Create follows.  Once it has succeeded the old entity and the record
\* are gone, and the Create that follows sends the new name and type under
\* a new id, never brings the old entity back, and, when it fails, leaves
\* no record and raises an error.
C18_ReplaceDeleteThenCreate ==
    [][(kind = "application" /\ op = "Delete" /\ IsConfig(cfg))
        => /\ Len(log) = 1 /\ log[1].c = "applications.Delete"
           /\ err # "" => (rec.exists /\ rec.id = log[1].id /\ op' # "Create")
           /\ err = "" => (~rec.exists /\ log[1].id \notin DOMAIN remote.ents)
           /\ (err = "" /\ op' = "Create" /\ cfg' = cfg)
                 => /\ log'[1].c = "applications.Create"
                    /\ log'[1].a = [name |-> cfg.name, type |-> cfg.type]
                    /\ log'[1].id # log[1].id
                    /\ log[1].id \notin DOMAIN remote'.ents
                    /\ (\E i \in 1..Len(log') : ~log'[i].ok)
                          => (~rec'.exists /\ err' # "")]_vars

\* the Create of a replacement failed after the old application, made by
\* the provider, had been deleted: no record, an error, the old id gone
C18_Witness ==
    /\ kind = "application" /\ op = "Create" /\ err # "" /\ IsConfig(cfg)
    /\ ~log[1].ok /\ ~rec.exists
    /\ made # {} /\ made \cap DOMAIN remote.ents = {}
    /\ log[1].id \notin made

\* the entity the record refers to is on remote r
OnRemote(k, r, state) ==
    CASE k = "organization_user" -> OrgUserKey(state) \in DOMAIN r.ents
      [] k = "user_role" ->
           /\ OrgUserKey(state) \in DOMAIN r.ents
           /\ state.role_id \in r.ents[OrgUserKey(state)]
      [] OTHER -> state.id \in DOMAIN r.ents

\* the invocation whose calls are l, issued against remote r, got an answer
\* to each of them: a call that failed was answered with NotFound
Answered(l, r) == \A i \in 1..Len(l) : ~l[i].ok => NotFound(l[i], r)

\* C19 as stated: a Read of a record whose entity is no longer on the
\* remote, each of its calls answered, removes the record and issues no
\* Create call.
C19_ReadRemovesVanished ==
    [][(op' = "Read" /\ rec.exists /\ ~OnRemote(kind, remote, rec) /\ Answered(log', remote))
        => (~rec'.exists /\ IssuedIn(log', CreateCalls) = {})]_vars

\* C20 as stated: a Delete whose call the remote answers with NotFound,
\* the entity being absent already, raises no error and removes the record.
C20_DeleteOfAbsentSucceeds ==
    [][(op' = "Delete" /\ rec.exists /\ log' # <<>> /\ NotFound(log'[1], remote))
        => (err' = "" /\ ~rec'.exists)]_vars

\* C21: every Delete issues one call; when the call fails an error is
\* raised and the record is what it was, and a record is gone after a
\* Delete only when the call succeeded and the entity is off the remote.
C21_DeleteFailureKeepsRecord ==
    [][(op' = "Delete" /\ rec.exists)
        => /\ Len(log') = 1
           /\ ~log'[1].ok => (err' # "" /\ rec' = rec /\ remote' = remote)
           /\ ~rec'.exists => (log'[1].ok /\ err' = "" /\ ~OnRemote(kind, remote', rec))]_vars

\* a Delete whose call failed in transit while the entity is on the remote:
\* the error is raised and the record still refers to the entity
C21_Witness ==
    /\ op = "Delete" /\ err # "" /\ ~log[1].ok
    /\ rec.exists /\ OnRemote(kind, remote, rec)
    /\ kind \in {"role", "organization_user"}

\* C22: an Update of an api or of a user_role raises an error, issues no
\* remote call and leaves the record and the remote as they were.
C22_NoUpdateKinds ==
    [][(op' = "Update" /\ kind \in {"api", "user_role"})
        => (err' # "" /\ log' = <<>> /\ rec' = rec /\ remote' = remote)]_vars

\* an Update of a user_role record was invoked and refused
C22_Witness ==
    /\ kind = "user_role" /\ op = "Update" /\ err = "Update Not Supported"
    /\ rec.exists /\ IsConfig(cfg) /\ cfg.role_id # rec.role_id

\* C23: a user Create whose configuration leaves is_suspended out issues no
\* users.Update and writes a record with is_suspended null; a Read of a
\* record with is_suspended null, and an Update of one whose configuration
\* still leaves it out, keep it null whatever the remote reports.
C23_UnmanagedSuspension ==
    [][(kind = "user" /\ op' \in {"Create", "Read", "Update"})
        => /\ (op' = "Create" /\ IsNull(cfg'.is_suspended))
              => /\ Issued(log', "users.Update") = {}
                 /\ rec'.exists => IsNull(rec'.is_suspended)
           /\ (op' = "Read" /\ IsNull(rec.is_suspended) /\ rec'.exists)
              => IsNull(rec'.is_suspended)
           /\ (op' = "Update" /\ IsNull(rec.is_suspended) /\ IsNull(cfg'.is_suspended))
              => /\ IsNull(rec'.is_suspended)
                 /\ \A i \in Issued(log', "users.Update") : IsNull(log'[i].a.is_suspended)]_vars

\* a user created without is_suspended was suspended on the remote by
\* somebody else, and a successful Read left the record's is_suspended null
C23_Witness ==
    /\ kind = "user" /\ op = "Read" /\ err = "" /\ rec.exists
    /\ IsConfig(cfg) /\ IsNull(cfg.is_suspended)
    /\ remote.ents[rec.id].is_suspended
    /\ IsNull(rec.is_suspended)

\* C24 as stated: a user Create whose configuration has is_suspended = true
\* ends with the error "Setting is_suspended=true when creating a user is
\* not supported", with no record and with no user created on the remote.
C24_CreateSuspendedRejected ==
    [][(kind = "user" /\ op' = "Create" /\ cfg'.is_suspended = Some(TRUE))
        => /\ err' = "Setting is_suspended=true when creating a user is not supported"
           /\ ~rec'.exists
           /\ Issued(log', "users.Create") = {}]_vars

\* the arguments of the calls named c of log l, in the order of the log
ArgsInOrder(l, c) ==
    LET s == SelectSeq(l, LAMBDA x : x.c = c)
    IN  [i \in 1..Len(s) |-> s[i].a]

Ascending(s) == \A i, j \in 1..Len(s) : i < j => s[i] < s[j]

\* C25 as stated: in a role Update and in an organization_user Update the
\* members removed are removed in ascending order and the members added are
\* handed over in ascending order.
C25_DeterministicOrder ==
    [][op' = "Update"
        => /\ kind = "role"
              => /\ Ascending(ArgsInOrder(log', "roles.RemovePermission"))
                 /\ \A i \in Issued(log', "roles.UpdatePermissions") : Ascending(log'[i].a)
           /\ kind = "organization_user"
              => /\ Ascending(ArgsInOrder(log', "organizations.RemoveUserRole"))
                 /\ Ascending(ArgsInOrder(log', "organizations.AddUserRole"))]_vars

C27_EmptyOptionsReset ==
    [][(kind = "connection" /\ op' = "Update" /\ err' = "")
        => /\ (cfg'.options = Some(EmptyOptions) /\ rec.options \in {Some(x) : x \in Secrets})
              => /\ ~IsNull(rec'.options)
                 /\ IsNull(rec'.options[1].client_id)
                 /\ IsNull(rec'.options[1].client_secret)
           /\ (rec.options = Some(EmptyOptions) /\ cfg'.options \in {Some(x) : x \in Secrets})
              => rec'.options = cfg'.options]_vars

\* a successful Update that sent the empty options object and left it in
\* the record
C27_Witness ==
    /\ kind = "connection" /\ op = "Update" /\ err = ""
    /\ cfg.options = Some(EmptyOptions)
    /\ log[1].c = "connections.Update" /\ log[1].a.options = Some(EmptyOptions)
    /\ rec.options = Some(EmptyOptions)

\* C28 as stated: the identities in the record after a successful user
\* Create, Read or Update include no oauth2 identity and include every
\* other identity the remote holds for the user.
C28_RecordIdentities ==
    (kind = "user" /\ op \in {"Create", "Read", "Update"} /\ err = "" /\ rec.exists)
        => /\ \A x \in Range(rec.identities) : ~IsOauth2(x)
           /\ \A x \in Range(remote.ents[rec.id].identities) :
                 ~IsOauth2(x) => x \in Range(rec.identities)

\* the permission ids the remote holds for the member of membership k
UserPermissions(r, k) == {g[2] : g \in {x \in r.perms : x[1] = k}}

\* C29 as stated: after a successful organization_user Create or Update
\* whose configuration declares permissions, the remote holds every
\* declared permission id for the user in the organization.
C29_DeclaredPermissionsHeld ==
    [][(kind = "organization_user" /\ op' \in {"Create", "Update"} /\ err' = ""
            /\ ~IsNull(cfg'.permissions))
        => Range(cfg'.permissions[1]) \subseteq UserPermissions(remote', rec'.id)]_vars

\* the component values of the record Create wrote hold no separator
ColonFree(r) == \A a \in Range(CompositeFields(kind)) : ":" \notin Range(r[a])

\* C30 as stated: ImportState of the id Create wrote succeeds and yields a
\* record with that id and with the component attributes Create wrote,
\* whatever the component values are.
C30_ImportRoundTrip ==
    [][op' = "ImportState"
        => /\ err' = "" /\ rec'.exists
           /\ rec'.id = rec.id
           /\ \A a \in Range(CompositeFields(kind)) : rec'[a] = rec[a]]_vars

\* C30 amended: the id Create writes is the component values joined by
\* colons; when no component value holds a colon, ImportState of that id
\* yields a record with the same id and the same component attributes; when
\* one does, ImportState fails with "Invalid Import ID" and writes no record.
C30_ImportRoundTripColonFree ==
    [][op' = "ImportState"
        => /\ rec.id = JoinID([i \in 1..Len(CompositeFields(kind)) |->
                                  rec[CompositeFields(kind)[i]]])
           /\ ColonFree(rec)
                => /\ err' = "" /\ rec'.exists
                   /\ rec'.id = rec.id
                   /\ \A a \in Range(CompositeFields(kind)) : rec'[a] = rec[a]
           /\ ~ColonFree(rec) => (err' = "Invalid Import ID" /\ ~rec'.exists)]_vars

\* a user_role id of three components, one of them empty, was imported
C30_Witness ==
    /\ kind = "user_role" /\ op = "ImportState" /\ err = ""
    /\ rec.exists /\ rec.id = <<"a", "a", ":", ":", "a">>
    /\ rec.organization_code = <<"a", "a">> /\ rec.user_id = <<>> /\ rec.role_id = <<"a">>


\* call d takes back what call c did to the same entity
Undoes(d, c) ==
    /\ d.id = c.id
    /\ \/ c.c = "organizations.AddUserRole" /\ d.c = "organizations.RemoveUserRole" /\ d.a = c.a
       \/ c.c = "organizations.RemoveUserRole" /\ d.c = "organizations.AddUserRole" /\ d.a = c.a
       \/ c.c = "organizations.AddUsers" /\ d.c = "organizations.RemoveUser"
       \/ c.c = "roles.UpdatePermissions" /\ d.c = "roles.RemovePermission" /\ d.a \in Range(c.a)
       \/ c.c = "roles.RemovePermission" /\ d.c = "roles.UpdatePermissions" /\ c.a \in Range(d.a)
       \/ c.c = "applications.EnableConnection" /\ d.c = "applications.DisableConnection"
       \/ c.c \in CreateCalls
          /\ d.c \in {"roles.Delete", "users.Delete", "applications.Delete",
                     "connections.Delete", "permissions.Delete", "apis.Delete"}

---------------------------------------------------------------------------
(* Two Updates at once: two entities of one kind, each with its own       *)
(* record and plan, whose handlers run call by call against one remote.   *)
(* Here rec, cfg, op, err and made map a handler (1 or 2) to its record,   *)
(* its plan, its position, its error and its calls still to issue; log is  *)
(* the one sequence of calls as the remote received them; aborted holds    *)
(* the remote and the records the two Updates started from.                *)

Handlers == {1, 2}

\* the entity handler p updates
Entity(k, p) == IF k = "role" THEN p ELSE <<IF p = 1 THEN "o1" ELSE "o2", "u1">>

\* the members the two entities hold at the start: any for the first, member
\* 1 for the second
Holdings == {h \in [Handlers -> SUBSET Members] : h[2] = {1}}

\* the remotes and records two Updates can start from: the records are those
\* a Read of the remote has just written
ConcurrentStart(k) ==
    IF k = "role"
    THEN {[remote |-> [next |-> 3,
                       ents |-> [p \in Handlers |->
                                   [name |-> "n1", key |-> "k1", description |-> "d1",
                                    permissions |-> held[p]]]],
           rec |-> [p \in Handlers |->
                      flattenRoleResource(p, [name |-> "n1", key |-> "k1",
                                              description |-> "d1"], held[p])]]
          : held \in Holdings}
    ELSE {[remote |-> [next |-> 1, perms |-> {},
                       ents |-> (Entity(k, 1) :> held[1]) @@ (Entity(k, 2) :> held[2])],
           rec |-> [p \in Handlers |->
                      OrgUserState([organization_code |-> Entity(k, p)[1], user_id |-> "u1",
                                    roles |-> Some(SortSet(held[p])),
                                    permissions |-> Null])]]
          : held \in Holdings}

\* the plans of an Update over record state: a role is renamed, and either
\* kind declares any members or none
ConcurrentPlans(k, state) ==
    IF k = "role"
    THEN {RolePlan(c, state) : c \in {d \in RoleConfigs : d.name = "n2"}}
    ELSE {OrgUserState(c) : c \in {d \in OrgUserConfigs :
                                     /\ d.organization_code = state.organization_code
                                     /\ d.user_id = state.user_id
                                     /\ IsNull(d.permissions)}}

\* the calls of the Update, as its first call finds the remote
UpdateCalls(k, plan, state, r) ==
    IF k = "role" THEN RoleUpdateCalls(plan, state) ELSE OrgUserUpdateCalls(plan, state, r)

\* the record the Update stores after its last call
UpdateStored(k, plan, r) ==
    IF k = "role"
    THEN flattenRoleResource(plan.id, r.ents[plan.id], r.ents[plan.id].permissions)
    ELSE OrgUserState(plan)

\* handler p issues the first of calls; fail: the call fails in transit
Issue(p, calls, fail) ==
    LET c == Head(calls) IN
    IF fail \/ NotFound(c, remote)
    THEN /\ log' = Append(log, [c EXCEPT !.ok = FALSE])
         /\ err' = [err EXCEPT ![p] = IF kind = "role" THEN RoleUpdateErr(c.c)
                                      ELSE OrgUserUpdateErr(c.c)]
         /\ op' = [op EXCEPT ![p] = "Done"]
         /\ made' = [made EXCEPT ![p] = <<>>]
         /\ UNCHANGED <<remote, rec>>
    ELSE /\ log' = Append(log, c)
         /\ remote' = RemoteEffect(c, remote)
         /\ made' = [made EXCEPT ![p] = Tail(calls)]
         /\ IF Tail(calls) = <<>>
            THEN /\ op' = [op EXCEPT ![p] = "Done"]
                 /\ rec' = [rec EXCEPT ![p] = UpdateStored(kind, cfg[p], remote')]
            ELSE /\ op' = [op EXCEPT ![p] = "Running"]
                 /\ rec' = rec
         /\ err' = err

\* the Update of handler p starts: it works out its calls and issues the first
ConcurrentBegin(p, fail) ==
    /\ op[p] = "Planned"
    /\ LET calls == UpdateCalls(kind, cfg[p], rec[p], remote)
       IN  IF calls = <<>>
           THEN /\ op' = [op EXCEPT ![p] = "Done"]
                /\ rec' = [rec EXCEPT ![p] = UpdateStored(kind, cfg[p], remote)]
                /\ UNCHANGED <<remote, log, err, made>>
           ELSE Issue(p, calls, fail)
    /\ UNCHANGED <<kind, cfg, aborted>>

\* the Update of handler p issues its next call
ConcurrentStep(p, fail) ==
    /\ op[p] = "Running"
    /\ Issue(p, made[p], fail)
    /\ UNCHANGED <<kind, cfg, aborted>>

InitConcurrent ==
    /\ kind \in {"role", "organization_user"}
    /\ aborted \in ConcurrentStart(kind)
    /\ remote = aborted.remote
    /\ rec = aborted.rec
    /\ cfg \in {c \in [Handlers -> UNION {ConcurrentPlans(kind, rec[p]) : p \in Handlers}] :
                  \A p \in Handlers : c[p] \in ConcurrentPlans(kind, rec[p])}
    /\ log = <<>>
    /\ err = [p \in Handlers |-> ""]
    /\ op = [p \in Handlers |-> "Planned"]
    /\ made = [p \in Handlers |-> <<>>]

NextConcurrent ==
    \/ \E p \in Handlers, fail \in BOOLEAN : ConcurrentBegin(p, fail)
    \/ \E p \in Handlers, fail \in BOOLEAN : ConcurrentStep(p, fail)

SpecConcurrent == InitConcurrent /\ [][NextConcurrent]_vars

\* the calls in l that name entity e
CallsOf(l, e) == SelectSeq(l, LAMBDA c : c.id = e)

\* the number of the call of entity e that failed, 0 when none did
FailedAt(l, e) ==
    LET mine == CallsOf(l, e)
    IN  IF mine # <<>> /\ ~mine[Len(mine)].ok THEN Len(mine) ELSE 0

\* the Update of handler p run alone, start to end, on remote r
UpdateAlone(k, p, r, f) ==
    IF k = "role" THEN RoleUpdate(cfg[p], aborted.rec[p], r, f)
    ELSE OrgUserUpdate(cfg[p], aborted.rec[p], r, f)

\* the Updates run one after the other, p first, failing where they failed
OneAfterTheOther(p, q) ==
    LET first  == UpdateAlone(kind, p, aborted.remote, FailedAt(log, Entity(kind, p)))
        second == UpdateAlone(kind, q, first.remote, FailedAt(log, Entity(kind, q)))
    IN  [remote |-> second.remote, rec |-> (p :> first.rec) @@ (q :> second.rec),
         err |-> (p :> first.err) @@ (q :> second.err)]

\* C32: two Updates of different roles, or of different memberships, whose
\* calls reach the remote in any interleaving end with the remote, the
\* records and the errors that the same two Updates, failing at the same
\* calls, end with when one runs to its end before the other starts, in
\* either order.
C32_InterleavingsAgree ==
    (\A p \in Handlers : op[p] = "Done")
      => \A p \in Handlers : \A q \in Handlers \ {p} :
           LET seq == OneAfterTheOther(p, q)
           IN  /\ remote = seq.remote
               /\ \A h \in Handlers : rec[h] = seq.rec[h] /\ err[h] = seq.err[h]

\* both Updates done without error, their calls interleaved, each having
\* changed its entity on the remote
C32_Witness ==
    /\ \A p \in Handlers : op[p] = "Done" /\ err[p] = ""
    /\ \E i, j, k \in 1..Len(log) :
         /\ i < j /\ j < k
         /\ log[i].id = log[k].id /\ log[j].id # log[i].id
         /\ log[i].c \in {"roles.RemovePermission", "organizations.RemoveUserRole"}
         /\ log[j].c \in {"roles.RemovePermission", "organizations.RemoveUserRole"}
    /\ \A p \in Handlers :
         remote.ents[Entity(kind, p)] # aborted.remote.ents[Entity(kind, p)]

\* the calls that change the members of an association
MemberCalls ==
    {"roles.RemovePermission", "roles.UpdatePermissions",
     "organizations.AddUserRole", "organizations.RemoveUserRole"}

\* the members the detail of the diagnostic names when call c failed: the
\* permission or role id the handler formats into the message
ErrorNames(c) ==
    CASE c.c = "roles.RemovePermission" -> {c.a}
      [] c.c = "organizations.AddUserRole" -> {c.a}
      [] c.c = "organizations.RemoveUserRole" -> {c.a}
      [] OTHER -> {}

\* the members entity id holds on remote r
Held(k, r, id) == IF k = "role" THEN r.ents[id].permissions ELSE r.ents[id]

\* the members call c carries
MembersOf(c) == IF c.c = "roles.UpdatePermissions" THEN Range(c.a) ELSE {c.a}

\* C33 as stated: when a member operation fails during a role Update, an
\* organization_user Create or an organization_user Update, it is the last
\* call of the invocation, what the member operations before it did is still
\* on the remote, no call of the invocation reverses an earlier one, and the
\* error names a member of the failed operation.
C33_AbortOnFirstFailure ==
    [][(/\ \/ kind = "role" /\ op' = "Update"
           \/ kind = "organization_user" /\ op' \in {"Create", "Update"}
        /\ \E i \in 1..Len(log') : ~log'[i].ok /\ log'[i].c \in MemberCalls)
        => /\ ~log'[Len(log')].ok
           /\ \A i \in 1..(Len(log') - 1) :
                /\ log'[i].ok
                /\ log'[i].c \in {"roles.RemovePermission", "organizations.RemoveUserRole"}
                     => log'[i].a \notin Held(kind, remote', log'[i].id)
                /\ log'[i].c = "organizations.AddUserRole"
                     => log'[i].a \in Held(kind, remote', log'[i].id)
           /\ \A i, j \in 1..Len(log') : i < j => ~Undoes(log'[j], log'[i])
           /\ err' # ""
           /\ ErrorNames(log'[Len(log')]) # {}
           /\ ErrorNames(log'[Len(log')]) \subseteq MembersOf(log'[Len(log')])]_vars

\* the arguments of the calls named c in log l
ArgsOf(l, c) == {l[i].a : i \in Issued(l, c)}

\* C34: a successful organization_user Update whose planned roles differ
\* from the record's asks the remote for the user's roles first, removes
\* exactly the roles the remote held that are not declared, adds exactly the
\* declared roles the remote did not hold, whatever the record said, and
\* leaves the user with the declared roles on the remote.
C34_DeltaAgainstRemote ==
    [][(kind = "organization_user" /\ op' = "Update" /\ err' = ""
        /\ cfg'.roles # rec.roles)
        => LET declared == Range(ValueOr(cfg'.roles, <<>>))
               found    == remote.ents[rec.id]
           IN  /\ log'[1].c = "organizations.GetUserRoles"
               /\ ArgsOf(log', "organizations.RemoveUserRole") = found \ declared
               /\ ArgsOf(log', "organizations.AddUserRole") = declared \ found
               /\ Len(log') = 1 + Cardinality(found \ declared) + Cardinality(declared \ found)
               /\ remote'.ents[rec.id] = declared]_vars

\* an Update on a record without roles that found a role on the remote,
\* removed it and added the declared one
C34_Witness ==
    /\ kind = "organization_user" /\ op = "Update" /\ err = ""
    /\ Len(log) = 3
    /\ log[2].c = "organizations.RemoveUserRole" /\ log[2].a = 2
    /\ log[3].c = "organizations.AddUserRole" /\ log[3].a = 1
    /\ rec.roles = Some(<<1>>) /\ remote.ents[rec.id] = {1}

Returned(k) ==
    IF k = "role" THEN {"name", "key", "description"} ELSE {"name", "strategy"}

\* C36 as stated: after every successful Update of a role or a connection
\* the record, the remote entity and the configuration hold the same value
\* in every declared attribute the remote returns.
C36_UpdateAgrees ==
    [][(kind \in {"role", "connection"} /\ op' = "Update" /\ err' = "")
        => \A a \in Returned(kind) :
             /\ rec'[a] = cfg'[a]
             /\ remote'.ents[rec'.id][a] = cfg'[a]]_vars

---------------------------------------------------------------------------
(* kinde_organization.  The remote keeps an organization under its code:   *)
(* ents |-> [code -> [name, handle, external_id and the four colours]].    *)
(* created_on and theme_code, which no handler compares or derives from,   *)
(* are left out.                                                           *)

\* the codes the remote hands out when Create names none
OrgCodes == <<"org_1">>

OrganizationOptional ==
    {"external_id", "background_color", "button_color", "button_text_color", "link_color"}

\* configurations: code and handle declared or not; no optional attribute
\* declared, the external id alone, or the external id and the colours
OrganizationConfigs ==
    {[name |-> n, code |-> c, handle |-> h, external_id |-> opt[1],
      background_color |-> opt[2], button_color |-> opt[3],
      button_text_color |-> opt[3], link_color |-> opt[3]] :
       n \in Names, c \in {Null, Some("o1")}, h \in {Null, Some("h1")},
       opt \in {<<Null, Null, Null>>, <<Some("x1"), Null, Null>>,
                <<Some("x1"), Some("#111"), Some("#222")>>}}

\* the plan: the configured value, and for an attribute the configuration
\* leaves out the state's value (UseStateForUnknown), unknown before Create
OrganizationPlan(c, state) ==
    [a \in DOMAIN c |-> IF a # "name" /\ state.exists /\ IsNull(c[a]) THEN state[a]
                        ELSE c[a]]
    @@ [id |-> IF state.exists THEN state.id ELSE Unset]

\* the model a handler stores for remote organization org
OrganizationState(id, code, org, handle) ==
    [exists |-> TRUE, id |-> id, code |-> Some(code), name |-> org.name, handle |-> handle,
     external_id |-> org.external_id, background_color |-> org.background_color,
     button_color |-> org.button_color, button_text_color |-> org.button_text_color,
     link_color |-> org.link_color]

\* a Create that stores the code and leaves the id as planned
OrganizationCreateWithoutID(plan, r, f) ==
    LET createParams == [name |-> plan.name, code |-> ValueOr(plan.code, ""),
                         handle |-> ValueOr(plan.handle, "")]
        code == IF createParams.code # "" THEN createParams.code ELSE OrgCodes[r.next]
        run  == Run(<<Call("organizations.Create", code, createParams),
                      Call("organizations.Get", code, <<>>)>>, r, f, 1)
    IN  [remote |-> run.remote, log |-> run.log,
         err |-> IF ~run.failed THEN ""
                 ELSE IF Len(run.log) = 1 THEN "Error Creating Organization"
                 ELSE "Error Reading Organization",
         rec |-> IF run.failed THEN NoRec
                 ELSE OrganizationState(plan.id, code, run.remote.ents[code],
                                        run.remote.ents[code].handle)]

OrganizationCreate(plan, r, f) ==
    LET createParams == [name |-> plan.name, code |-> ValueOr(plan.code, ""),
                         handle |-> ValueOr(plan.handle, "")]
        \* organization.Code: the code asked for, or one the remote hands out
        code == IF createParams.code # "" THEN createParams.code ELSE OrgCodes[r.next]
        run  == Run(<<Call("organizations.Create", code, createParams),
                      Call("organizations.Get", code, <<>>)>>, r, f, 1)
        organization == run.remote.ents[code]
    IN  [remote |-> run.remote, log |-> run.log,
         err |-> IF ~run.failed THEN ""
                 ELSE IF Len(run.log) = 1 THEN "Error Creating Organization"
                 ELSE "Error Reading Organization",
         rec |-> IF run.failed THEN NoRec
                 ELSE OrganizationState(
                        IF createParams.code # "" THEN createParams.code ELSE code,
                        IF createParams.code # "" THEN createParams.code ELSE code,
                        organization,
                        IF ~IsNull(organization.handle) THEN organization.handle
                        ELSE IF createParams.handle # "" THEN Some(createParams.handle)
                        ELSE Null)]

OrganizationRead(state, r, f) ==
    LET code == ValueOr(state.code, "")
        run  == Run(<<Call("organizations.Get", code, <<>>)>>, r, f, 1)
    IN  [remote |-> run.remote, log |-> run.log,
         err |-> IF run.failed THEN "Error Reading Organization" ELSE "",
         rec |-> IF run.failed THEN state
                 ELSE OrganizationState(code, code, r.ents[code], r.ents[code].handle)]

OrganizationUpdate(plan, state, r, f) ==
    LET updateParams == [a \in OrganizationOptional \cup {"handle"} |-> ValueOr(plan[a], "")]
                        @@ [name |-> plan.name]
        code == ValueOr(plan.code, "")
        run  == Run(<<Call("organizations.Update", code, updateParams)>>, r, f, 1)
    IN  [remote |-> run.remote, log |-> run.log,
         err |-> IF run.failed THEN "Error Updating Organization" ELSE "",
         rec |-> IF run.failed THEN state
                 ELSE OrganizationState(code, code, run.remote.ents[code],
                                        run.remote.ents[code].handle)]

OrganizationDelete(state, r, f) ==
    LET run == Run(<<Call("organizations.Delete", ValueOr(state.code, ""), <<>>)>>, r, f, 1)
    IN  [remote |-> run.remote, log |-> run.log,
         err |-> IF run.failed THEN "Error Deleting Organization" ELSE "",
         rec |-> IF run.failed THEN state ELSE NoRec]

OrganizationImportState(id, r, f) ==
    LET run == Run(<<Call("organizations.Get", id, <<>>)>>, r, f, 1)
    IN  [remote |-> run.remote, log |-> run.log,
         err |-> IF run.failed THEN "Error Reading Organization" ELSE "",
         rec |-> IF run.failed THEN NoRec
                 ELSE OrganizationState(id, id, r.ents[id], r.ents[id].handle)]

OrganizationResourceCreate ==
    /\ kind = "organization" /\ ~rec.exists /\ remote.next \in DOMAIN OrgCodes
    /\ \E c \in OrganizationConfigs, f \in 0..2 :
          Invoke("Create", OrganizationCreate(OrganizationPlan(c, rec), remote, f), c)

OrganizationResourceRead ==
    /\ kind = "organization" /\ rec.exists
    /\ \E f \in 0..1 : Invoke("Read", OrganizationRead(rec, remote, f), KeptCfg)

\* Update is planned when a planned value differs from the state's
OrganizationResourceUpdate ==
    /\ kind = "organization" /\ rec.exists
    /\ \E c \in OrganizationConfigs :
         /\ \E a \in DOMAIN c : OrganizationPlan(c, rec)[a] # rec[a]
         /\ \E f \in 0..1 :
               Invoke("Update", OrganizationUpdate(OrganizationPlan(c, rec), rec, remote, f), c)

OrganizationResourceDelete ==
    /\ kind = "organization" /\ rec.exists
    /\ \E f \in 0..1 : Invoke("Delete", OrganizationDelete(rec, remote, f), NoCfg)

OrganizationResourceImportState ==
    /\ kind = "organization" /\ ~rec.exists
    /\ \E id \in {"o1", "org_1"}, f \in 0..1 :
          Invoke("ImportState", OrganizationImportState(id, remote, f), NoCfg)

\* others rename the organization, set its external id, or delete it
OrganizationDrift ==
    /\ kind = "organization" /\ rec.exists
    /\ \E code \in DOMAIN remote.ents \cap Range(rec.code) :
         \/ \E n \in Names \ {remote.ents[code].name} :
               remote' = [remote EXCEPT !.ents[code].name = n]
         \/ remote' = [remote EXCEPT !.ents[code].external_id =
                          IF @ = Some("x2") THEN Null ELSE Some("x2")]
         \/ remote' = [remote EXCEPT !.ents = Drop(@, code)]
    /\ op' = "Drift" /\ log' = <<>> /\ err' = "" /\ cfg' = NoCfg /\ aborted' = NoCfg
    /\ UNCHANGED <<kind, rec, made>>

InitOrganization ==
    /\ kind = "organization"
    /\ remote = [next |-> 1, ents |-> NoEnts]
    /\ rec = NoRec
    /\ cfg = NoCfg
    /\ log = <<>>
    /\ err = ""
    /\ op = "Init"
    /\ made = {}
    /\ aborted = NoCfg

NextOrganization ==
    \/ OrganizationResourceCreate
    \/ OrganizationResourceRead
    \/ OrganizationResourceUpdate
    \/ OrganizationResourceDelete
    \/ OrganizationResourceImportState
    \/ OrganizationDrift

SpecOrganization == InitOrganization /\ [][NextOrganization]_vars

\* C37 as stated: after a successful organization Create every optional
\* attribute the configuration declares has its declared value in the
\* record and on the remote organization.
C37_CreateSetsOptional ==
    (kind = "organization" /\ op = "Create" /\ err = "")
      => \A a \in OrganizationOptional :
           ~IsNull(cfg[a]) => /\ rec[a] = cfg[a]
                              /\ remote.ents[rec.id][a] = cfg[a]

\* C39: every organization record has an id, and its code is that id.
C39_IdIsCode ==
    (kind = "organization" /\ rec.exists) => rec.code = Some(rec.id)

\* a record written by Read after a Create that named no code: id and code
\* are the code the remote handed out
C39_Witness ==
    /\ kind = "organization" /\ op = "Read" /\ err = "" /\ rec.exists
    /\ rec.id = "org_1" /\ rec.code = Some("org_1")
    /\ IsConfig(cfg) /\ IsNull(cfg.code)

\* C38: in every user_role Create each AddUserRole call comes after a
\* GetUserRoles call for the same organization and user that succeeded; when
\* the GetUserRoles call fails, because the user is not in the organization
\* or for any other reason, the Create issues no AddUserRole, ends with the
\* error raised for that call, writes no record and leaves the remote as it was.
C38_MembershipChecked ==
    [][(kind = "user_role" /\ op' = "Create")
        => /\ \A i \in Issued(log', "organizations.AddUserRole") :
                /\ log'[i].id = <<cfg'.organization_code, cfg'.user_id>>
                /\ \E j \in 1..(i - 1) :
                     /\ log'[j].c = "organizations.GetUserRoles"
                     /\ log'[j].ok /\ log'[j].id = log'[i].id
           /\ (\E i \in Issued(log', "organizations.GetUserRoles") : ~log'[i].ok)
                => /\ Issued(log', "organizations.AddUserRole") = {}
                   /\ err' \in {"User Not in Organization",
                                "Error Checking User Organization Membership"}
                   /\ ~rec'.exists
                   /\ remote' = remote
           /\ <<cfg'.organization_code, cfg'.user_id>> \notin DOMAIN remote.ents
                => /\ err' # "" /\ ~rec'.exists
                   /\ Issued(log', "organizations.AddUserRole") = {}]_vars

\* a Create for a user who is not in the organization: refused after
\* GetUserRoles, nothing assigned, no record
C38_Witness ==
    /\ kind = "user_role" /\ op = "Create" /\ err = "User Not in Organization"
    /\ Len(log) = 1 /\ log[1].c = "organizations.GetUserRoles" /\ ~log[1].ok
    /\ log[1].id \notin DOMAIN remote.ents
    /\ ~rec.exists
=============================================================================
